---------------------------- MODULE Spec2Model ----------------------------
(***************************************************************************)
(* A model of build.py, the static-site generator of the almanac: the      *)
(* loader (parse_element over the <staat> elements), the section builder   *)
(* (recursive_render, build_sections) and the page loop with its slug      *)
(* registry, description, FAQ block, flag code, JSON-LD country node and   *)
(* index cards, followed by the index sort and the sitemap.                *)
(*                                                                         *)
(* A Python str is a sequence of characters; a character is a one-letter   *)
(* string, or "U+XXXX" for a code point outside ASCII.  A Python value     *)
(* (None, str, list, dict) is a record [t, s, items], see "Values".        *)
(***************************************************************************)
EXTENDS Integers, Sequences, FiniteSets, TLC

VARIABLES
  doc,          \* the <staat> elements found under the root (found_states)
  pc,           \* position of the script: "load", "pages", "done", "crashed"
  li,           \* number of <staat> elements the loader loop has consumed
  states,       \* the list `states` of normalized country records
  warnings,     \* number of "WARNUNG: Konnte Staat-Element nicht parsen" lines
  i,            \* number of records the page loop has started on
  used_slugs,   \* the registry `used_slugs`: a sequence of [base, n]
  files,        \* the detail pages written, in order: write_text(out_file)
  index_cards,  \* the list `index_cards`
  index_states, \* the sorted cards handed to the index template
  sitemap       \* the sorted list of sitemap URLs

vars == <<doc, pc, li, states, warnings, i, used_slugs, files, index_cards,
          index_states, sitemap>>

(***************************************************************************)
(* Characters and strings                                                  *)
(***************************************************************************)

UpperAZ == <<"A", "B", "C", "D", "E", "F", "G", "H", "I", "J", "K", "L", "M",
             "N", "O", "P", "Q", "R", "S", "T", "U", "V", "W", "X", "Y", "Z">>

LowerAZ == <<"a", "b", "c", "d", "e", "f", "g", "h", "i", "j", "k", "l", "m",
             "n", "o", "p", "q", "r", "s", "t", "u", "v", "w", "x", "y", "z">>

Digits == <<"0", "1", "2", "3", "4", "5", "6", "7", "8", "9">>

\* The characters of printable ASCII, in code point order from 32 (space); the
\* grave accent, 96, is written "U+0060".
AsciiOrder ==
  <<" ", "!", "\"", "#", "$", "%", "&", "'", "(", ")", "*", "+", ",", "-", ".", "/",
    "0", "1", "2", "3", "4", "5", "6", "7", "8", "9", ":", ";", "<", "=", ">", "?",
    "@", "A", "B", "C", "D", "E", "F", "G", "H", "I", "J", "K", "L", "M", "N", "O",
    "P", "Q", "R", "S", "T", "U", "V", "W", "X", "Y", "Z", "[", "\\", "]", "^", "_",
    "U+0060", "a", "b", "c", "d", "e", "f", "g", "h", "i", "j", "k", "l", "m", "n", "o",
    "p", "q", "r", "s", "t", "u", "v", "w", "x", "y", "z", "{", "|", "}", "~">>

\* The code points outside printable ASCII that the script's literals and the
\* modelled inputs use: <<character, code point>>.
OtherCodePoints ==
  << <<"\t", 9>>, <<"\n", 10>>,
     <<"U+00B2", 178>>, <<"U+00B7", 183>>, <<"U+00C4", 196>>, <<"U+00D6", 214>>,
     <<"U+00DC", 220>>, <<"U+00DF", 223>>, <<"U+00E4", 228>>, <<"U+00E9", 233>>,
     <<"U+00F6", 246>>, <<"U+00FC", 252>>, <<"U+0301", 769>>, <<"U+0308", 776>>,
     <<"U+2013", 8211>>, <<"U+2022", 8226>>, <<"U+2082", 8322>>, <<"U+2500", 9472>> >>

\* the first position of x in seq, 0 if there is none
IndexOf(seq, x) ==
  LET hit == {n \in 1..Len(seq) : seq[n] = x}
  IN  IF hit = {} THEN 0 ELSE CHOOSE n \in hit : \A m \in hit : n <= m

\* ord(ch)
Ord(ch) ==
  IF IndexOf(AsciiOrder, ch) > 0 THEN 31 + IndexOf(AsciiOrder, ch)
  ELSE LET hit == {n \in 1..Len(OtherCodePoints) : OtherCodePoints[n][1] = ch}
       IN  IF hit = {} THEN 0 ELSE OtherCodePoints[CHOOSE n \in hit : TRUE][2]

\* str.lower() on one character; the cased letters outside ASCII the inputs use
\* are the German umlauts.
LowerCh(ch) ==
  IF IndexOf(UpperAZ, ch) > 0 THEN LowerAZ[IndexOf(UpperAZ, ch)]
  ELSE IF ch = "U+00C4" THEN "U+00E4"
  ELSE IF ch = "U+00D6" THEN "U+00F6"
  ELSE IF ch = "U+00DC" THEN "U+00FC"
  ELSE ch

UpperCh(ch) ==
  IF IndexOf(LowerAZ, ch) > 0 THEN UpperAZ[IndexOf(LowerAZ, ch)]
  ELSE IF ch = "U+00E4" THEN "U+00C4"
  ELSE IF ch = "U+00F6" THEN "U+00D6"
  ELSE IF ch = "U+00FC" THEN "U+00DC"
  ELSE ch

Lower(s) == [n \in 1..Len(s) |-> LowerCh(s[n])]

\* str.capitalize(): first character upper-cased, the rest lower-cased
Capitalize(s) == [n \in 1..Len(s) |-> IF n = 1 THEN UpperCh(s[n]) ELSE LowerCh(s[n])]

IsSpace(ch) == ch \in {" ", "\t", "\n"}

Min(S) == CHOOSE n \in S : \A m \in S : n <= m

Max(S) == CHOOSE n \in S : \A m \in S : m <= n

\* s without the characters at either end that satisfy Drop
StripEnds(s, Drop(_)) ==
  LET keep == {n \in 1..Len(s) : ~Drop(s[n])}
  IN  IF keep = {} THEN <<>> ELSE SubSeq(s, Min(keep), Max(keep))

\* str.strip()
Strip(s) == StripEnds(s, IsSpace)

\* s[:n]
Prefix(s, n) == SubSeq(s, 1, IF Len(s) < n THEN Len(s) ELSE n)

\* "".join(ss), by halves
RECURSIVE Flatten(_)
Flatten(ss) ==
  IF ss = <<>> THEN <<>>
  ELSE IF Len(ss) = 1 THEN ss[1]
  ELSE Flatten(SubSeq(ss, 1, Len(ss) \div 2)) \o Flatten(SubSeq(ss, Len(ss) \div 2 + 1, Len(ss)))

\* sep.join(parts)
Join(sep, parts) ==
  Flatten([n \in 1..Len(parts) |-> IF n = 1 THEN parts[n] ELSE sep \o parts[n]])

\* str(n) for an int n >= 0
RECURSIVE IntStr(_)
IntStr(n) == IF n < 10 THEN <<Digits[n + 1]>> ELSE IntStr(n \div 10) \o <<Digits[(n % 10) + 1]>>

\* s < t in Python's order on str (by code point, a proper prefix first)
StrLess(s, t) ==
  LET differ == {n \in 1..Len(s) : n <= Len(t) /\ s[n] # t[n]}
  IN  IF differ = {} THEN Len(s) < Len(t)
      ELSE Ord(s[Min(differ)]) < Ord(t[Min(differ)])

\* unicodedata.normalize("NFKD", ch) for one character
NFKDCh(ch) ==
  CASE ch = "U+00E4" -> <<"a", "U+0308">>
    [] ch = "U+00F6" -> <<"o", "U+0308">>
    [] ch = "U+00FC" -> <<"u", "U+0308">>
    [] ch = "U+00C4" -> <<"A", "U+0308">>
    [] ch = "U+00D6" -> <<"O", "U+0308">>
    [] ch = "U+00DC" -> <<"U", "U+0308">>
    [] ch = "U+00E9" -> <<"e", "U+0301">>
    [] ch = "U+00B2" -> <<"2">>
    [] ch = "U+2082" -> <<"2">>
    [] OTHER -> <<ch>>

NFKD(s) == Flatten([n \in 1..Len(s) |-> NFKDCh(s[n])])

\* unicodedata.combining(ch) # 0
Combining(ch) == ch \in {"U+0301", "U+0308"}

\* [a-z0-9]
IsSlugChar(ch) == IndexOf(LowerAZ, ch) > 0 \/ IndexOf(Digits, ch) > 0

\* re.sub(r"[^a-z0-9]+", "-", s): every maximal run of other characters becomes one "-"
SubNonSlug(s) ==
  Flatten([n \in 1..Len(s) |->
             IF IsSlugChar(s[n]) THEN <<s[n]>>
             ELSE IF n = 1 \/ IsSlugChar(s[n - 1]) THEN <<"-">>
             ELSE <<>>])

IsHyphen(ch) == ch = "-"

\* .strip("-")
StripHyphens(s) == StripEnds(s, IsHyphen)

(***************************************************************************)
(* Values: what parse_element returns and the page loop handles.           *)
(*   None      [t |-> "none"]                                              *)
(*   a str     [t |-> "s", s |-> its characters]                           *)
(*   a list    [t |-> "l", items |-> <<[k |-> <<>>, v |-> element], ...>>] *)
(*   a dict    [t |-> "d", items |-> <<[k |-> key, v |-> value], ...>>],   *)
(*             in insertion order                                          *)
(*   an int    [t |-> "i", s |-> its decimal digits] (JSON-LD positions)   *)
(***************************************************************************)

None == [t |-> "none", s |-> <<>>, items |-> <<>>]

Str(s) == [t |-> "s", s |-> s, items |-> <<>>]

Lst(vs) == [t |-> "l", s |-> <<>>, items |-> [n \in 1..Len(vs) |-> [k |-> <<>>, v |-> vs[n]]]]

Dct(kvs) == [t |-> "d", s |-> <<>>, items |-> kvs]

IsStr(v) == v.t = "s"

IsList(v) == v.t = "l"

IsDict(v) == v.t = "d"

\* the elements of a list, the values of a dict
Elems(v) == [n \in 1..Len(v.items) |-> v.items[n].v]

\* list(d.keys())
Keys(v) == [n \in 1..Len(v.items) |-> v.items[n].k]

\* key in d
HasKey(d, key) == \E n \in 1..Len(d.items) : d.items[n].k = key

\* d.get(key)
Get(d, key) ==
  IF HasKey(d, key) THEN d.items[CHOOSE n \in 1..Len(d.items) : d.items[n].k = key].v
  ELSE None

\* bool(v)
Truthy(v) ==
  CASE v.t = "s" -> v.s # <<>>
    [] v.t = "i" -> v.s # <<"0">>
    [] v.t = "none" -> FALSE
    [] OTHER -> v.items # <<>>

\* repr(s) of a str: single quotes unless s holds a ' and no "; \, newline and tab escaped
ReprStr(s) ==
  LET dq  == (\E n \in 1..Len(s) : s[n] = "'") /\ ~(\E n \in 1..Len(s) : s[n] = "\"")
      q   == IF dq THEN "\"" ELSE "'"
      esc(ch) == CASE ch = "\\" -> <<"\\", "\\">>
                   [] ch = "\n" -> <<"\\", "n">>
                   [] ch = "\t" -> <<"\\", "t">>
                   [] ch = "'" /\ ~dq -> <<"\\", "'">>
                   [] OTHER -> <<ch>>
  IN  <<q>> \o Flatten([n \in 1..Len(s) |-> esc(s[n])]) \o <<q>>

\* repr(v)
RECURSIVE PyRepr(_)
PyRepr(v) ==
  CASE v.t = "s" -> ReprStr(v.s)
    [] v.t = "i" -> v.s
    [] v.t = "none" -> <<"N", "o", "n", "e">>
    [] v.t = "l" ->
         <<"[">> \o Join(<<",", " ">>, [n \in 1..Len(v.items) |-> PyRepr(v.items[n].v)])
                 \o <<"]">>
    [] OTHER ->
         <<"{">> \o Join(<<",", " ">>,
                         [n \in 1..Len(v.items) |->
                            ReprStr(v.items[n].k) \o <<":", " ">> \o PyRepr(v.items[n].v)])
                 \o <<"}">>

\* str(v), also what an f-string and str.format put in for v
PyStr(v) == IF v.t = "s" THEN v.s ELSE PyRepr(v)

\* slugify(s): s = str(s or "").strip().lower(), NFKD without combining marks,
\* runs outside [a-z0-9] to "-", hyphens stripped at both ends, "unbekannt" if empty
slugify(v) ==
  LET lowered  == Lower(Strip(PyStr(IF Truthy(v) THEN v ELSE Str(<<>>))))
      folded   == SelectSeq(NFKD(lowered), LAMBDA ch : ~Combining(ch))
      hyphened == StripHyphens(SubNonSlug(folded))
  IN  IF hyphened # <<>> THEN hyphened ELSE <<"u", "n", "b", "e", "k", "a", "n", "n", "t">>

(***************************************************************************)
(* Literals of the script                                                  *)
(***************************************************************************)

K_id == <<"i", "d">>

K_hname == <<"h", "n", "a", "m", "e">>

K_sname == <<"s", "n", "a", "m", "e">>

K_hauptstadt == <<"h", "a", "u", "p", "t", "s", "t", "a", "d", "t">>

K_einwzahl == <<"e", "i", "n", "w", "z", "a", "h", "l">>

K_flaeche == <<"f", "l", "a", "e", "c", "h", "e">>

K_amtssprache == <<"a", "m", "t", "s", "s", "p", "r", "a", "c", "h", "e">>

K_waehrung == <<"w", "a", "e", "h", "r", "u", "n", "g">>

K_autokennz == <<"a", "u", "t", "o", "k", "e", "n", "n", "z">>

K_gebiete == <<"g", "e", "b", "i", "e", "t", "e">>

K_gebiet == <<"g", "e", "b", "i", "e", "t">>

K_ghname == <<"g", "h", "n", "a", "m", "e">>

K_gueber1 == <<"g", "u", "e", "b", "e", "r", "1">>

K_gueber2 == <<"g", "u", "e", "b", "e", "r", "2">>

K_stand == <<"s", "t", "a", "n", "d">>

\* the [:160] of the description
MaxDescription == 160

\* "Weitere Informationen"
T_Weitere ==
  <<"W", "e", "i", "t", "e", "r", "e", " ",
    "I", "n", "f", "o", "r", "m", "a", "t", "i", "o", "n", "e", "n">>

\* "Gebiete"
T_Gebiete == <<"G", "e", "b", "i", "e", "t", "e">>

\* "Info"
L_Info == <<"I", "n", "f", "o">>

\* "---2" and "---1" (three box-drawing dashes, U+2500)
L_Divider2 == <<"U+2500", "U+2500", "U+2500", "2">>

L_Divider1 == <<"U+2500", "U+2500", "U+2500", "1">>

\* "Unbekannt"
S_Unbekannt == <<"U", "n", "b", "e", "k", "a", "n", "n", "t">>

\* BASE_URL, when the environment sets none
BASE_URL ==
  <<"h", "t", "t", "p", ":", "/", "/", "l", "o", "c", "a", "l", "h", "o", "s", "t",
    ":", "8", "0", "8", "0">>

\* '/staaten/'
S_staaten ==
  <<"/", "s", "t", "a", "a", "t", "e", "n", "/">>

\* 'dist'
S_dist ==
  <<"d", "i", "s", "t">>

\* 'index.html'
S_index_html ==
  <<"i", "n", "d", "e", "x", ".", "h", "t", "m", "l">>

\* 'Hauptstadt: '
S_HauptstadtColon ==
  <<"H", "a", "u", "p", "t", "s", "t", "a", "d", "t", ":", " ">>

\* 'Einwohner: '
S_EinwohnerColon ==
  <<"E", "i", "n", "w", "o", "h", "n", "e", "r", ":", " ">>

\* 'Fakten und Steckbrief zu '
S_Fakten ==
  <<"F", "a", "k", "t", "e", "n", " ", "u", "n", "d", " ", "S", "t", "e", "c", "k",
    "b", "r", "i", "e", "f", " ", "z", "u", " ">>

\* ' ? '
S_Dash ==
  <<" ", "U+2013", " ">>

\* ' ? '
S_Dot ==
  <<" ", "U+00B7", " ">>

\* 'Wie viele Einwohner hat {}?'
Q_einwzahl ==
  <<"W", "i", "e", " ", "v", "i", "e", "l", "e", " ", "E", "i", "n", "w", "o", "h",
    "n", "e", "r", " ", "h", "a", "t", " ", "{", "}", "?">>

\* 'Die Einwohnerzahl betr?gt ca.'
A_einwzahl ==
  <<"D", "i", "e", " ", "E", "i", "n", "w", "o", "h", "n", "e", "r", "z", "a", "h",
    "l", " ", "b", "e", "t", "r", "U+00E4", "g", "t", " ", "c", "a", ".">>

\* 'Was ist die Hauptstadt von {}?'
Q_hauptstadt ==
  <<"W", "a", "s", " ", "i", "s", "t", " ", "d", "i", "e", " ", "H", "a", "u", "p",
    "t", "s", "t", "a", "d", "t", " ", "v", "o", "n", " ", "{", "}", "?">>

\* 'Die Hauptstadt ist'
A_hauptstadt ==
  <<"D", "i", "e", " ", "H", "a", "u", "p", "t", "s", "t", "a", "d", "t", " ", "i",
    "s", "t">>

\* 'Welche W?hrung hat {}?'
Q_waehrung ==
  <<"W", "e", "l", "c", "h", "e", " ", "W", "U+00E4", "h", "r", "u", "n", "g", " ",
    "h", "a", "t", " ", "{", "}", "?">>

\* 'Die W?hrung ist'
A_waehrung ==
  <<"D", "i", "e", " ", "W", "U+00E4", "h", "r", "u", "n", "g", " ", "i", "s", "t">>

\* 'Welche Sprache spricht man in {}?'
Q_amtssprache ==
  <<"W", "e", "l", "c", "h", "e", " ", "S", "p", "r", "a", "c", "h", "e", " ", "s",
    "p", "r", "i", "c", "h", "t", " ", "m", "a", "n", " ", "i", "n", " ", "{", "}",
    "?">>

\* 'Die Amtssprache ist'
A_amtssprache ==
  <<"D", "i", "e", " ", "A", "m", "t", "s", "s", "p", "r", "a", "c", "h", "e", " ",
    "i", "s", "t">>

\* 'Wie gro? ist {}?'
Q_flaeche ==
  <<"W", "i", "e", " ", "g", "r", "o", "U+00DF", " ", "i", "s", "t", " ", "{", "}",
    "?">>

\* 'Die Fl?che betr?gt'
A_flaeche ==
  <<"D", "i", "e", " ", "F", "l", "U+00E4", "c", "h", "e", " ", "b", "e", "t", "r",
    "U+00E4", "g", "t">>

\* 'https://flagcdn.com/w640/'
S_flagcdn ==
  <<"h", "t", "t", "p", "s", ":", "/", "/", "f", "l", "a", "g", "c", "d", "n", ".",
    "c", "o", "m", "/", "w", "6", "4", "0", "/">>

\* '.png'
S_png ==
  <<".", "p", "n", "g">>

\* 'Der neue Kosmos Welt-Almanach & Atlas 2026'
SITE_NAME ==
  <<"D", "e", "r", " ", "n", "e", "u", "e", " ", "K", "o", "s", "m", "o", "s", " ",
    "W", "e", "l", "t", "-", "A", "l", "m", "a", "n", "a", "c", "h", " ", "&", " ",
    "A", "t", "l", "a", "s", " ", "2", "0", "2", "6">>

\* 'Alle L?nder'
S_AlleLaender ==
  <<"A", "l", "l", "e", " ", "L", "U+00E4", "n", "d", "e", "r">>

\* '@type'
J_type ==
  <<"@", "t", "y", "p", "e">>

\* '@id'
J_id ==
  <<"@", "i", "d">>

\* 'name'
J_name ==
  <<"n", "a", "m", "e">>

\* 'alternateName'
J_alternateName ==
  <<"a", "l", "t", "e", "r", "n", "a", "t", "e", "N", "a", "m", "e">>

\* 'description'
J_description ==
  <<"d", "e", "s", "c", "r", "i", "p", "t", "i", "o", "n">>

\* 'identifier'
J_identifier ==
  <<"i", "d", "e", "n", "t", "i", "f", "i", "e", "r">>

\* 'capital'
J_capital ==
  <<"c", "a", "p", "i", "t", "a", "l">>

\* 'population'
J_population ==
  <<"p", "o", "p", "u", "l", "a", "t", "i", "o", "n">>

\* 'areaServed'
J_areaServed ==
  <<"a", "r", "e", "a", "S", "e", "r", "v", "e", "d">>

\* 'knowsLanguage'
J_knowsLanguage ==
  <<"k", "n", "o", "w", "s", "L", "a", "n", "g", "u", "a", "g", "e">>

\* 'image'
J_image ==
  <<"i", "m", "a", "g", "e">>

\* 'Country'
J_Country ==
  <<"C", "o", "u", "n", "t", "r", "y">>

\* 'City'
J_City ==
  <<"C", "i", "t", "y">>

\* 'WebPage'
J_WebPage ==
  <<"W", "e", "b", "P", "a", "g", "e">>

\* 'url'
J_url ==
  <<"u", "r", "l">>

\* 'inLanguage'
J_inLanguage ==
  <<"i", "n", "L", "a", "n", "g", "u", "a", "g", "e">>

\* 'de'
J_de ==
  <<"d", "e">>

\* 'breadcrumb'
J_breadcrumb ==
  <<"b", "r", "e", "a", "d", "c", "r", "u", "m", "b">>

\* 'mainEntity'
J_mainEntity ==
  <<"m", "a", "i", "n", "E", "n", "t", "i", "t", "y">>

\* 'BreadcrumbList'
J_BreadcrumbList ==
  <<"B", "r", "e", "a", "d", "c", "r", "u", "m", "b", "L", "i", "s", "t">>

\* 'itemListElement'
J_itemListElement ==
  <<"i", "t", "e", "m", "L", "i", "s", "t", "E", "l", "e", "m", "e", "n", "t">>

\* 'ListItem'
J_ListItem ==
  <<"L", "i", "s", "t", "I", "t", "e", "m">>

\* 'position'
J_position ==
  <<"p", "o", "s", "i", "t", "i", "o", "n">>

\* 'item'
J_item ==
  <<"i", "t", "e", "m">>

\* 'FAQPage'
J_FAQPage ==
  <<"F", "A", "Q", "P", "a", "g", "e">>

\* 'Question'
J_Question ==
  <<"Q", "u", "e", "s", "t", "i", "o", "n">>

\* 'acceptedAnswer'
J_acceptedAnswer ==
  <<"a", "c", "c", "e", "p", "t", "e", "d", "A", "n", "s", "w", "e", "r">>

\* 'Answer'
J_Answer ==
  <<"A", "n", "s", "w", "e", "r">>

\* 'text'
J_text ==
  <<"t", "e", "x", "t">>

\* '@context'
J_context ==
  <<"@", "c", "o", "n", "t", "e", "x", "t">>

\* 'https://schema.org'
J_schema_org ==
  <<"h", "t", "t", "p", "s", ":", "/", "/", "s", "c", "h", "e", "m", "a", ".", "o",
    "r", "g">>

\* '@graph'
J_graph ==
  <<"@", "g", "r", "a", "p", "h">>

\* '#country'
J_hash_country ==
  <<"#", "c", "o", "u", "n", "t", "r", "y">>

\* '#breadcrumb'
J_hash_breadcrumb ==
  <<"#", "b", "r", "e", "a", "d", "c", "r", "u", "m", "b">>

(***************************************************************************)
(* The tables of the script                                                *)
(***************************************************************************)

FIELD_LABELS ==
  <<
     \* "id": None
     [k |-> <<"i", "d">>, none |-> TRUE, label |-> <<>>],
     \* "hname": None
     [k |-> <<"h", "n", "a", "m", "e">>, none |-> TRUE, label |-> <<>>],
     \* "sname": "Staatenname"
     [k |-> <<"s", "n", "a", "m", "e">>, none |-> FALSE,
      label |-> <<"S", "t", "a", "a", "t", "e", "n", "n", "a", "m", "e">>],
     \* "tzone": "Zeitzone"
     [k |-> <<"t", "z", "o", "n", "e">>, none |-> FALSE,
      label |-> <<"Z", "e", "i", "t", "z", "o", "n", "e">>],
     \* "flaeche": "Fl?che in km?"
     [k |-> <<"f", "l", "a", "e", "c", "h", "e">>, none |-> FALSE,
      label |-> <<"F", "l", "U+00E4", "c", "h", "e", " ", "i", "n", " ", "k", "m", "U+00B2">>],
     \* "einwzahl": "Anzahl der Einwohner"
     [k |-> <<"e", "i", "n", "w", "z", "a", "h", "l">>, none |-> FALSE,
      label |-> <<"A", "n", "z", "a", "h", "l", " ", "d", "e", "r", " ", "E", "i", "n", "w", "o", "h", "n", "e", "r">>],
     \* "einwdicht": "Einwohner pro km?"
     [k |-> <<"e", "i", "n", "w", "d", "i", "c", "h", "t">>, none |-> FALSE,
      label |-> <<"E", "i", "n", "w", "o", "h", "n", "e", "r", " ", "p", "r", "o", " ", "k", "m", "U+00B2">>],
     \* "hauptstadt": "Hauptstadt"
     [k |-> <<"h", "a", "u", "p", "t", "s", "t", "a", "d", "t">>, none |-> FALSE,
      label |-> <<"H", "a", "u", "p", "t", "s", "t", "a", "d", "t">>],
     \* "amtssprache": "Amtssprache"
     [k |-> <<"a", "m", "t", "s", "s", "p", "r", "a", "c", "h", "e">>, none |-> FALSE,
      label |-> <<"A", "m", "t", "s", "s", "p", "r", "a", "c", "h", "e">>],
     \* "gliederung": "Verwaltungsgliederung"
     [k |-> <<"g", "l", "i", "e", "d", "e", "r", "u", "n", "g">>, none |-> FALSE,
      label |-> <<"V", "e", "r", "w", "a", "l", "t", "u", "n", "g", "s", "g", "l", "i", "e", "d", "e", "r", "u", "n", "g">>],
     \* "staedte": "Wichtige St?dte"
     [k |-> <<"s", "t", "a", "e", "d", "t", "e">>, none |-> FALSE,
      label |-> <<"W", "i", "c", "h", "t", "i", "g", "e", " ", "S", "t", "U+00E4", "d", "t", "e">>],
     \* "autokennz": "Autokennzeichen | ISO-Code"
     [k |-> <<"a", "u", "t", "o", "k", "e", "n", "n", "z">>, none |-> FALSE,
      label |-> <<"A", "u", "t", "o", "k", "e", "n", "n", "z", "e", "i", "c", "h", "e", "n", " ", "|", " ", "I", "S", "O", "-", "C", "o", "d", "e">>],
     \* "waehrung": "W?hrung"
     [k |-> <<"w", "a", "e", "h", "r", "u", "n", "g">>, none |-> FALSE,
      label |-> <<"W", "U+00E4", "h", "r", "u", "n", "g">>],
     \* "natfeier": "Nationalfeiertag"
     [k |-> <<"n", "a", "t", "f", "e", "i", "e", "r">>, none |-> FALSE,
      label |-> <<"N", "a", "t", "i", "o", "n", "a", "l", "f", "e", "i", "e", "r", "t", "a", "g">>],
     \* "geolage": "Geografische Lage"
     [k |-> <<"g", "e", "o", "l", "a", "g", "e">>, none |-> FALSE,
      label |-> <<"G", "e", "o", "g", "r", "a", "f", "i", "s", "c", "h", "e", " ", "L", "a", "g", "e">>],
     \* "hoechpunkt": "H?chster Punkt"
     [k |-> <<"h", "o", "e", "c", "h", "p", "u", "n", "k", "t">>, none |-> FALSE,
      label |-> <<"H", "U+00F6", "c", "h", "s", "t", "e", "r", " ", "P", "u", "n", "k", "t">>],
     \* "klima": "Klima"
     [k |-> <<"k", "l", "i", "m", "a">>, none |-> FALSE,
      label |-> <<"K", "l", "i", "m", "a">>],
     \* "staatsform": "Staatsform"
     [k |-> <<"s", "t", "a", "a", "t", "s", "f", "o", "r", "m">>, none |-> FALSE,
      label |-> <<"S", "t", "a", "a", "t", "s", "f", "o", "r", "m">>],
     \* "oberhaupt": "Staatsoberhaupt"
     [k |-> <<"o", "b", "e", "r", "h", "a", "u", "p", "t">>, none |-> FALSE,
      label |-> <<"S", "t", "a", "a", "t", "s", "o", "b", "e", "r", "h", "a", "u", "p", "t">>],
     \* "regchef": "Regierungschef"
     [k |-> <<"r", "e", "g", "c", "h", "e", "f">>, none |-> FALSE,
      label |-> <<"R", "e", "g", "i", "e", "r", "u", "n", "g", "s", "c", "h", "e", "f">>],
     \* "aussen": "Au?enminister"
     [k |-> <<"a", "u", "s", "s", "e", "n">>, none |-> FALSE,
      label |-> <<"A", "u", "U+00DF", "e", "n", "m", "i", "n", "i", "s", "t", "e", "r">>],
     \* "botschaft": "Botschaft"
     [k |-> <<"b", "o", "t", "s", "c", "h", "a", "f", "t">>, none |-> FALSE,
      label |-> <<"B", "o", "t", "s", "c", "h", "a", "f", "t">>],
     \* "parteireg": "Regierungskoalition"
     [k |-> <<"p", "a", "r", "t", "e", "i", "r", "e", "g">>, none |-> FALSE,
      label |-> <<"R", "e", "g", "i", "e", "r", "u", "n", "g", "s", "k", "o", "a", "l", "i", "t", "i", "o", "n">>],
     \* "legislative": "Legislative"
     [k |-> <<"l", "e", "g", "i", "s", "l", "a", "t", "i", "v", "e">>, none |-> FALSE,
      label |-> <<"L", "e", "g", "i", "s", "l", "a", "t", "i", "v", "e">>],
     \* "verfassung": "Jahr der Verfassung"
     [k |-> <<"v", "e", "r", "f", "a", "s", "s", "u", "n", "g">>, none |-> FALSE,
      label |-> <<"J", "a", "h", "r", " ", "d", "e", "r", " ", "V", "e", "r", "f", "a", "s", "s", "u", "n", "g">>],
     \* "wahlrecht": "Wahlrecht"
     [k |-> <<"w", "a", "h", "l", "r", "e", "c", "h", "t">>, none |-> FALSE,
      label |-> <<"W", "a", "h", "l", "r", "e", "c", "h", "t">>],
     \* "bevanteil": "Alter"
     [k |-> <<"b", "e", "v", "a", "n", "t", "e", "i", "l">>, none |-> FALSE,
      label |-> <<"A", "l", "t", "e", "r">>],
     \* "bevverteil": "Verteilung"
     [k |-> <<"b", "e", "v", "v", "e", "r", "t", "e", "i", "l">>, none |-> FALSE,
      label |-> <<"V", "e", "r", "t", "e", "i", "l", "u", "n", "g">>],
     \* "bevwachst": "Wachstum"
     [k |-> <<"b", "e", "v", "w", "a", "c", "h", "s", "t">>, none |-> FALSE,
      label |-> <<"W", "a", "c", "h", "s", "t", "u", "m">>],
     \* "altmedian": "Altersmedian"
     [k |-> <<"a", "l", "t", "m", "e", "d", "i", "a", "n">>, none |-> FALSE,
      label |-> <<"A", "l", "t", "e", "r", "s", "m", "e", "d", "i", "a", "n">>],
     \* "lebenserw": "Lebenserwartung"
     [k |-> <<"l", "e", "b", "e", "n", "s", "e", "r", "w">>, none |-> FALSE,
      label |-> <<"L", "e", "b", "e", "n", "s", "e", "r", "w", "a", "r", "t", "u", "n", "g">>],
     \* "alpharate": "Alphabetenrate"
     [k |-> <<"a", "l", "p", "h", "a", "r", "a", "t", "e">>, none |-> FALSE,
      label |-> <<"A", "l", "p", "h", "a", "b", "e", "t", "e", "n", "r", "a", "t", "e">>],
     \* "ethgruppen": "Gruppen"
     [k |-> <<"e", "t", "h", "g", "r", "u", "p", "p", "e", "n">>, none |-> FALSE,
      label |-> <<"G", "r", "u", "p", "p", "e", "n">>],
     \* "religion": "Religionen"
     [k |-> <<"r", "e", "l", "i", "g", "i", "o", "n">>, none |-> FALSE,
      label |-> <<"R", "e", "l", "i", "g", "i", "o", "n", "e", "n">>],
     \* "sprache": "Sprachen"
     [k |-> <<"s", "p", "r", "a", "c", "h", "e">>, none |-> FALSE,
      label |-> <<"S", "p", "r", "a", "c", "h", "e", "n">>],
     \* "gesamtbip": "BIP"
     [k |-> <<"g", "e", "s", "a", "m", "t", "b", "i", "p">>, none |-> FALSE,
      label |-> <<"B", "I", "P">>],
     \* "wachstbip": "BIP-Wachstum"
     [k |-> <<"w", "a", "c", "h", "s", "t", "b", "i", "p">>, none |-> FALSE,
      label |-> <<"B", "I", "P", "-", "W", "a", "c", "h", "s", "t", "u", "m">>],
     \* "einwbne": "BIP/Kopf"
     [k |-> <<"e", "i", "n", "w", "b", "n", "e">>, none |-> FALSE,
      label |-> <<"B", "I", "P", "/", "K", "o", "p", "f">>],
     \* "inflation": "Inflation"
     [k |-> <<"i", "n", "f", "l", "a", "t", "i", "o", "n">>, none |-> FALSE,
      label |-> <<"I", "n", "f", "l", "a", "t", "i", "o", "n">>],
     \* "ausshandel": "Au?enhandel"
     [k |-> <<"a", "u", "s", "s", "h", "a", "n", "d", "e", "l">>, none |-> FALSE,
      label |-> <<"A", "u", "U+00DF", "e", "n", "h", "a", "n", "d", "e", "l">>],
     \* "sektorbip": "Anteil BIP nach Sektoren"
     [k |-> <<"s", "e", "k", "t", "o", "r", "b", "i", "p">>, none |-> FALSE,
      label |-> <<"A", "n", "t", "e", "i", "l", " ", "B", "I", "P", " ", "n", "a", "c", "h", " ", "S", "e", "k", "t", "o", "r", "e", "n">>],
     \* "arblos": "Arbeitslosenquote"
     [k |-> <<"a", "r", "b", "l", "o", "s">>, none |-> FALSE,
      label |-> <<"A", "r", "b", "e", "i", "t", "s", "l", "o", "s", "e", "n", "q", "u", "o", "t", "e">>],
     \* "energverbr": "CO?-Emission/Kopf"
     [k |-> <<"e", "n", "e", "r", "g", "v", "e", "r", "b", "r">>, none |-> FALSE,
      label |-> <<"C", "O", "U+2082", "-", "E", "m", "i", "s", "s", "i", "o", "n", "/", "K", "o", "p", "f">>],
     \* "erneuerbar": "Stromerzeugung aus Erneuerbarer Energie"
     [k |-> <<"e", "r", "n", "e", "u", "e", "r", "b", "a", "r">>, none |-> FALSE,
      label |-> <<"S", "t", "r", "o", "m", "e", "r", "z", "e", "u", "g", "u", "n", "g", " ", "a", "u", "s", " ", "E", "r", "n", "e", "u", "e", "r", "b", "a", "r", "e", "r", " ", "E", "n", "e", "r", "g", "i", "e">>],
     \* "gid": None
     [k |-> <<"g", "i", "d">>, none |-> TRUE, label |-> <<>>],
     \* "ghname": "Name"
     [k |-> <<"g", "h", "n", "a", "m", "e">>, none |-> FALSE,
      label |-> <<"N", "a", "m", "e">>],
     \* "gflaeche": "Fl?che in km?"
     [k |-> <<"g", "f", "l", "a", "e", "c", "h", "e">>, none |-> FALSE,
      label |-> <<"F", "l", "U+00E4", "c", "h", "e", " ", "i", "n", " ", "k", "m", "U+00B2">>],
     \* "geinwzahl": "Anzahl der Einwohner"
     [k |-> <<"g", "e", "i", "n", "w", "z", "a", "h", "l">>, none |-> FALSE,
      label |-> <<"A", "n", "z", "a", "h", "l", " ", "d", "e", "r", " ", "E", "i", "n", "w", "o", "h", "n", "e", "r">>],
     \* "ghauptstadt": "Hauptstadt"
     [k |-> <<"g", "h", "a", "u", "p", "t", "s", "t", "a", "d", "t">>, none |-> FALSE,
      label |-> <<"H", "a", "u", "p", "t", "s", "t", "a", "d", "t">>],
     \* "gstatus": "Status"
     [k |-> <<"g", "s", "t", "a", "t", "u", "s">>, none |-> FALSE,
      label |-> <<"S", "t", "a", "t", "u", "s">>],
     \* "gregierung": "Regierungschef"
     [k |-> <<"g", "r", "e", "g", "i", "e", "r", "u", "n", "g">>, none |-> FALSE,
      label |-> <<"R", "e", "g", "i", "e", "r", "u", "n", "g", "s", "c", "h", "e", "f">>]
  >>

SECTION_ORDER ==
  <<
     \* ("Basisdaten", [sname, tzone, flaeche, einwzahl, einwdicht, hauptstadt, amtssprache, gliederung, staedte, autokennz, waehrung, natfeier])
     [title |-> <<"B", "a", "s", "i", "s", "d", "a", "t", "e", "n">>,
      keys |-> << <<"s", "n", "a", "m", "e">>,
                 <<"t", "z", "o", "n", "e">>,
                 <<"f", "l", "a", "e", "c", "h", "e">>,
                 <<"e", "i", "n", "w", "z", "a", "h", "l">>,
                 <<"e", "i", "n", "w", "d", "i", "c", "h", "t">>,
                 <<"h", "a", "u", "p", "t", "s", "t", "a", "d", "t">>,
                 <<"a", "m", "t", "s", "s", "p", "r", "a", "c", "h", "e">>,
                 <<"g", "l", "i", "e", "d", "e", "r", "u", "n", "g">>,
                 <<"s", "t", "a", "e", "d", "t", "e">>,
                 <<"a", "u", "t", "o", "k", "e", "n", "n", "z">>,
                 <<"w", "a", "e", "h", "r", "u", "n", "g">>,
                 <<"n", "a", "t", "f", "e", "i", "e", "r">> >>],
     \* ("Geografie", [geolage, hoechpunkt, klima])
     [title |-> <<"G", "e", "o", "g", "r", "a", "f", "i", "e">>,
      keys |-> << <<"g", "e", "o", "l", "a", "g", "e">>,
                 <<"h", "o", "e", "c", "h", "p", "u", "n", "k", "t">>,
                 <<"k", "l", "i", "m", "a">> >>],
     \* ("Politik", [staatsform, oberhaupt, regchef, aussen, botschaft, parteireg, legislative, verfassung, wahlrecht])
     [title |-> <<"P", "o", "l", "i", "t", "i", "k">>,
      keys |-> << <<"s", "t", "a", "a", "t", "s", "f", "o", "r", "m">>,
                 <<"o", "b", "e", "r", "h", "a", "u", "p", "t">>,
                 <<"r", "e", "g", "c", "h", "e", "f">>,
                 <<"a", "u", "s", "s", "e", "n">>,
                 <<"b", "o", "t", "s", "c", "h", "a", "f", "t">>,
                 <<"p", "a", "r", "t", "e", "i", "r", "e", "g">>,
                 <<"l", "e", "g", "i", "s", "l", "a", "t", "i", "v", "e">>,
                 <<"v", "e", "r", "f", "a", "s", "s", "u", "n", "g">>,
                 <<"w", "a", "h", "l", "r", "e", "c", "h", "t">> >>],
     \* ("Bev?lkerung", [bevanteil, bevverteil, bevwachst, altmedian, lebenserw, alpharate, ethgruppen, religion, sprache])
     [title |-> <<"B", "e", "v", "U+00F6", "l", "k", "e", "r", "u", "n", "g">>,
      keys |-> << <<"b", "e", "v", "a", "n", "t", "e", "i", "l">>,
                 <<"b", "e", "v", "v", "e", "r", "t", "e", "i", "l">>,
                 <<"b", "e", "v", "w", "a", "c", "h", "s", "t">>,
                 <<"a", "l", "t", "m", "e", "d", "i", "a", "n">>,
                 <<"l", "e", "b", "e", "n", "s", "e", "r", "w">>,
                 <<"a", "l", "p", "h", "a", "r", "a", "t", "e">>,
                 <<"e", "t", "h", "g", "r", "u", "p", "p", "e", "n">>,
                 <<"r", "e", "l", "i", "g", "i", "o", "n">>,
                 <<"s", "p", "r", "a", "c", "h", "e">> >>],
     \* ("Wirtschaft", [gesamtbip, wachstbip, einwbne, inflation, ausshandel, sektorbip, arblos, energverbr, erneuerbar])
     [title |-> <<"W", "i", "r", "t", "s", "c", "h", "a", "f", "t">>,
      keys |-> << <<"g", "e", "s", "a", "m", "t", "b", "i", "p">>,
                 <<"w", "a", "c", "h", "s", "t", "b", "i", "p">>,
                 <<"e", "i", "n", "w", "b", "n", "e">>,
                 <<"i", "n", "f", "l", "a", "t", "i", "o", "n">>,
                 <<"a", "u", "s", "s", "h", "a", "n", "d", "e", "l">>,
                 <<"s", "e", "k", "t", "o", "r", "b", "i", "p">>,
                 <<"a", "r", "b", "l", "o", "s">>,
                 <<"e", "n", "e", "r", "g", "v", "e", "r", "b", "r">>,
                 <<"e", "r", "n", "e", "u", "e", "r", "b", "a", "r">> >>]
  >>

ISO3_TO_ISO2 ==
  <<
     << <<"A", "F", "G">>, <<"a", "f">> >>, << <<"A", "L", "B">>, <<"a", "l">> >>, << <<"D", "Z", "A">>, <<"d", "z">> >>,
     << <<"A", "N", "D">>, <<"a", "d">> >>, << <<"A", "G", "O">>, <<"a", "o">> >>, << <<"A", "T", "G">>, <<"a", "g">> >>,
     << <<"A", "R", "G">>, <<"a", "r">> >>, << <<"A", "R", "M">>, <<"a", "m">> >>, << <<"A", "U", "S">>, <<"a", "u">> >>,
     << <<"A", "U", "T">>, <<"a", "t">> >>, << <<"A", "Z", "E">>, <<"a", "z">> >>, << <<"B", "H", "S">>, <<"b", "s">> >>,
     << <<"B", "H", "R">>, <<"b", "h">> >>, << <<"B", "G", "D">>, <<"b", "d">> >>, << <<"B", "R", "B">>, <<"b", "b">> >>,
     << <<"B", "L", "R">>, <<"b", "y">> >>, << <<"B", "E", "L">>, <<"b", "e">> >>, << <<"B", "L", "Z">>, <<"b", "z">> >>,
     << <<"B", "E", "N">>, <<"b", "j">> >>, << <<"B", "T", "N">>, <<"b", "t">> >>, << <<"B", "O", "L">>, <<"b", "o">> >>,
     << <<"B", "I", "H">>, <<"b", "a">> >>, << <<"B", "W", "A">>, <<"b", "w">> >>, << <<"B", "R", "A">>, <<"b", "r">> >>,
     << <<"B", "R", "N">>, <<"b", "n">> >>, << <<"B", "G", "R">>, <<"b", "g">> >>, << <<"B", "F", "A">>, <<"b", "f">> >>,
     << <<"B", "D", "I">>, <<"b", "i">> >>, << <<"C", "P", "V">>, <<"c", "v">> >>, << <<"K", "H", "M">>, <<"k", "h">> >>,
     << <<"C", "M", "R">>, <<"c", "m">> >>, << <<"C", "A", "N">>, <<"c", "a">> >>, << <<"C", "A", "F">>, <<"c", "f">> >>,
     << <<"T", "C", "D">>, <<"t", "d">> >>, << <<"C", "H", "L">>, <<"c", "l">> >>, << <<"C", "H", "N">>, <<"c", "n">> >>,
     << <<"C", "O", "L">>, <<"c", "o">> >>, << <<"C", "O", "M">>, <<"k", "m">> >>, << <<"C", "O", "G">>, <<"c", "g">> >>,
     << <<"C", "O", "D">>, <<"c", "d">> >>, << <<"C", "R", "I">>, <<"c", "r">> >>, << <<"C", "I", "V">>, <<"c", "i">> >>,
     << <<"H", "R", "V">>, <<"h", "r">> >>, << <<"C", "U", "B">>, <<"c", "u">> >>, << <<"C", "Y", "P">>, <<"c", "y">> >>,
     << <<"C", "Z", "E">>, <<"c", "z">> >>, << <<"D", "N", "K">>, <<"d", "k">> >>, << <<"D", "J", "I">>, <<"d", "j">> >>,
     << <<"D", "M", "A">>, <<"d", "m">> >>, << <<"D", "O", "M">>, <<"d", "o">> >>, << <<"E", "C", "U">>, <<"e", "c">> >>,
     << <<"E", "G", "Y">>, <<"e", "g">> >>, << <<"S", "L", "V">>, <<"s", "v">> >>, << <<"G", "N", "Q">>, <<"g", "q">> >>,
     << <<"E", "R", "I">>, <<"e", "r">> >>, << <<"E", "S", "T">>, <<"e", "e">> >>, << <<"S", "W", "Z">>, <<"s", "z">> >>,
     << <<"E", "T", "H">>, <<"e", "t">> >>, << <<"F", "J", "I">>, <<"f", "j">> >>, << <<"F", "I", "N">>, <<"f", "i">> >>,
     << <<"F", "R", "A">>, <<"f", "r">> >>, << <<"G", "A", "B">>, <<"g", "a">> >>, << <<"G", "M", "B">>, <<"g", "m">> >>,
     << <<"G", "E", "O">>, <<"g", "e">> >>, << <<"D", "E", "U">>, <<"d", "e">> >>, << <<"G", "H", "A">>, <<"g", "h">> >>,
     << <<"G", "R", "C">>, <<"g", "r">> >>, << <<"G", "R", "D">>, <<"g", "d">> >>, << <<"G", "T", "M">>, <<"g", "t">> >>,
     << <<"G", "I", "N">>, <<"g", "n">> >>, << <<"G", "N", "B">>, <<"g", "w">> >>, << <<"G", "U", "Y">>, <<"g", "y">> >>,
     << <<"H", "T", "I">>, <<"h", "t">> >>, << <<"H", "N", "D">>, <<"h", "n">> >>, << <<"H", "U", "N">>, <<"h", "u">> >>,
     << <<"I", "S", "L">>, <<"i", "s">> >>, << <<"I", "N", "D">>, <<"i", "n">> >>, << <<"I", "D", "N">>, <<"i", "d">> >>,
     << <<"I", "R", "N">>, <<"i", "r">> >>, << <<"I", "R", "Q">>, <<"i", "q">> >>, << <<"I", "R", "L">>, <<"i", "e">> >>,
     << <<"I", "S", "R">>, <<"i", "l">> >>, << <<"I", "T", "A">>, <<"i", "t">> >>, << <<"J", "A", "M">>, <<"j", "m">> >>,
     << <<"J", "P", "N">>, <<"j", "p">> >>, << <<"J", "O", "R">>, <<"j", "o">> >>, << <<"K", "A", "Z">>, <<"k", "z">> >>,
     << <<"K", "E", "N">>, <<"k", "e">> >>, << <<"K", "I", "R">>, <<"k", "i">> >>, << <<"P", "R", "K">>, <<"k", "p">> >>,
     << <<"K", "O", "R">>, <<"k", "r">> >>, << <<"K", "W", "T">>, <<"k", "w">> >>, << <<"K", "G", "Z">>, <<"k", "g">> >>,
     << <<"L", "A", "O">>, <<"l", "a">> >>, << <<"L", "V", "A">>, <<"l", "v">> >>, << <<"L", "B", "N">>, <<"l", "b">> >>,
     << <<"L", "S", "O">>, <<"l", "s">> >>, << <<"L", "B", "R">>, <<"l", "r">> >>, << <<"L", "B", "Y">>, <<"l", "y">> >>,
     << <<"L", "I", "E">>, <<"l", "i">> >>, << <<"L", "T", "U">>, <<"l", "t">> >>, << <<"L", "U", "X">>, <<"l", "u">> >>,
     << <<"M", "D", "G">>, <<"m", "g">> >>, << <<"M", "W", "I">>, <<"m", "w">> >>, << <<"M", "Y", "S">>, <<"m", "y">> >>,
     << <<"M", "D", "V">>, <<"m", "v">> >>, << <<"M", "L", "I">>, <<"m", "l">> >>, << <<"M", "L", "T">>, <<"m", "t">> >>,
     << <<"M", "H", "L">>, <<"m", "h">> >>, << <<"M", "R", "T">>, <<"m", "r">> >>, << <<"M", "U", "S">>, <<"m", "u">> >>,
     << <<"M", "E", "X">>, <<"m", "x">> >>, << <<"F", "S", "M">>, <<"f", "m">> >>, << <<"M", "D", "A">>, <<"m", "d">> >>,
     << <<"M", "C", "O">>, <<"m", "c">> >>, << <<"M", "N", "G">>, <<"m", "n">> >>, << <<"M", "N", "E">>, <<"m", "e">> >>,
     << <<"M", "A", "R">>, <<"m", "a">> >>, << <<"M", "O", "Z">>, <<"m", "z">> >>, << <<"M", "M", "R">>, <<"m", "m">> >>,
     << <<"N", "A", "M">>, <<"n", "a">> >>, << <<"N", "R", "U">>, <<"n", "r">> >>, << <<"N", "P", "L">>, <<"n", "p">> >>,
     << <<"N", "L", "D">>, <<"n", "l">> >>, << <<"N", "Z", "L">>, <<"n", "z">> >>, << <<"N", "I", "C">>, <<"n", "i">> >>,
     << <<"N", "E", "R">>, <<"n", "e">> >>, << <<"N", "G", "A">>, <<"n", "g">> >>, << <<"M", "K", "D">>, <<"m", "k">> >>,
     << <<"N", "O", "R">>, <<"n", "o">> >>, << <<"O", "M", "N">>, <<"o", "m">> >>, << <<"P", "A", "K">>, <<"p", "k">> >>,
     << <<"P", "L", "W">>, <<"p", "w">> >>, << <<"P", "A", "N">>, <<"p", "a">> >>, << <<"P", "N", "G">>, <<"p", "g">> >>,
     << <<"P", "R", "Y">>, <<"p", "y">> >>, << <<"P", "E", "R">>, <<"p", "e">> >>, << <<"P", "H", "L">>, <<"p", "h">> >>,
     << <<"P", "O", "L">>, <<"p", "l">> >>, << <<"P", "R", "T">>, <<"p", "t">> >>, << <<"Q", "A", "T">>, <<"q", "a">> >>,
     << <<"R", "O", "U">>, <<"r", "o">> >>, << <<"R", "U", "S">>, <<"r", "u">> >>, << <<"R", "W", "A">>, <<"r", "w">> >>,
     << <<"K", "N", "A">>, <<"k", "n">> >>, << <<"L", "C", "A">>, <<"l", "c">> >>, << <<"V", "C", "T">>, <<"v", "c">> >>,
     << <<"W", "S", "M">>, <<"w", "s">> >>, << <<"S", "M", "R">>, <<"s", "m">> >>, << <<"S", "T", "P">>, <<"s", "t">> >>,
     << <<"S", "A", "U">>, <<"s", "a">> >>, << <<"S", "E", "N">>, <<"s", "n">> >>, << <<"S", "R", "B">>, <<"r", "s">> >>,
     << <<"S", "Y", "C">>, <<"s", "c">> >>, << <<"S", "L", "E">>, <<"s", "l">> >>, << <<"S", "G", "P">>, <<"s", "g">> >>,
     << <<"S", "V", "K">>, <<"s", "k">> >>, << <<"S", "V", "N">>, <<"s", "i">> >>, << <<"S", "L", "B">>, <<"s", "b">> >>,
     << <<"S", "O", "M">>, <<"s", "o">> >>, << <<"Z", "A", "F">>, <<"z", "a">> >>, << <<"S", "S", "D">>, <<"s", "s">> >>,
     << <<"E", "S", "P">>, <<"e", "s">> >>, << <<"L", "K", "A">>, <<"l", "k">> >>, << <<"S", "D", "N">>, <<"s", "d">> >>,
     << <<"S", "U", "R">>, <<"s", "r">> >>, << <<"S", "W", "E">>, <<"s", "e">> >>, << <<"C", "H", "E">>, <<"c", "h">> >>,
     << <<"S", "Y", "R">>, <<"s", "y">> >>, << <<"T", "W", "N">>, <<"t", "w">> >>, << <<"T", "J", "K">>, <<"t", "j">> >>,
     << <<"T", "Z", "A">>, <<"t", "z">> >>, << <<"T", "H", "A">>, <<"t", "h">> >>, << <<"T", "L", "S">>, <<"t", "l">> >>,
     << <<"T", "G", "O">>, <<"t", "g">> >>, << <<"T", "O", "N">>, <<"t", "o">> >>, << <<"T", "T", "O">>, <<"t", "t">> >>,
     << <<"T", "U", "N">>, <<"t", "n">> >>, << <<"T", "U", "R">>, <<"t", "r">> >>, << <<"T", "K", "M">>, <<"t", "m">> >>,
     << <<"T", "U", "V">>, <<"t", "v">> >>, << <<"U", "G", "A">>, <<"u", "g">> >>, << <<"U", "K", "R">>, <<"u", "a">> >>,
     << <<"A", "R", "E">>, <<"a", "e">> >>, << <<"G", "B", "R">>, <<"g", "b">> >>, << <<"U", "S", "A">>, <<"u", "s">> >>,
     << <<"U", "R", "Y">>, <<"u", "y">> >>, << <<"U", "Z", "B">>, <<"u", "z">> >>, << <<"V", "U", "T">>, <<"v", "u">> >>,
     << <<"V", "A", "T">>, <<"v", "a">> >>, << <<"V", "E", "N">>, <<"v", "e">> >>, << <<"V", "N", "M">>, <<"v", "n">> >>,
     << <<"Y", "E", "M">>, <<"y", "e">> >>, << <<"Z", "M", "B">>, <<"z", "m">> >>, << <<"Z", "W", "E">>, <<"z", "w">> >>
  >>

\* FIELD_LABELS.get(key, key) with a None label taken for a missing entry
FieldLabelNoneAsMissing(key) == [none |-> FALSE, label |-> key]

\* FIELD_LABELS.get(key, key): [none |-> the label is None, label |-> the label]
FieldLabel(key) ==
  LET hit == {n \in 1..Len(FIELD_LABELS) : FIELD_LABELS[n].k = key}
  IN  IF hit = {} THEN [none |-> FALSE, label |-> key]
      ELSE LET e == FIELD_LABELS[CHOOSE n \in hit : TRUE]
           IN  [none |-> e.none, label |-> e.label]

\* ISO3_TO_ISO2.get(iso3, "")
Iso2(iso3) ==
  LET hit == {n \in 1..Len(ISO3_TO_ISO2) : ISO3_TO_ISO2[n][1] = iso3}
  IN  IF hit = {} THEN <<>> ELSE ISO3_TO_ISO2[CHOOSE n \in hit : TRUE][2]

(***************************************************************************)
(* The loader: parse_element                                               *)
(*   an XML element is [tag, text, kids]; text is <<>> when elem.text is   *)
(*   None                                                                  *)
(***************************************************************************)

\* StoreChild with the isinstance test left out: the value held so far is wrapped
\* in a new list at every repetition
StoreChildRewrap(out, tag, val) ==
  IF \E n \in 1..Len(out) : out[n].k = tag
    THEN LET n == CHOOSE m \in 1..Len(out) : out[m].k = tag
         IN  [out EXCEPT ![n].v = Lst(<<out[n].v, val>>)]
    ELSE Append(out, [k |-> tag, v |-> val])

\* the loop body of parse_element: out[tag] = val, or fold a repeated tag into a list
StoreChild(out, tag, val) ==
  IF \E n \in 1..Len(out) : out[n].k = tag
    THEN LET n == CHOOSE m \in 1..Len(out) : out[m].k = tag
             old == out[n].v
         IN  [out EXCEPT ![n].v =
                Lst(Append(IF IsList(old) THEN Elems(old) ELSE <<old>>, val))]
    ELSE Append(out, [k |-> tag, v |-> val])

RECURSIVE parse_element(_)
RECURSIVE ParseChildren(_, _)

\* for child in elem: ... (out is the dict built so far)
ParseChildren(kids, out) ==
  IF kids = <<>> THEN out
  ELSE ParseChildren(Tail(kids),
                     StoreChild(out, Head(kids).tag, parse_element(Head(kids))))

parse_element(elem) ==
  IF Len(elem.kids) > 0 THEN Dct(ParseChildren(elem.kids, <<>>))
  ELSE Str(Strip(elem.text))

(***************************************************************************)
(* The section builder: recursive_render and build_sections                *)
(*   a fact is [label, value]; a section is [title, facts]                 *)
(***************************************************************************)

Fact(label, value) == [label |-> label, value |-> value]

\* "  " * level
Indent(level) == [n \in 1..(2 * level) |-> " "]

RECURSIVE recursive_render(_, _, _)
RECURSIVE RenderKeys(_, _, _)
RECURSIVE RenderListItems(_, _, _)

\* for k in d.keys(): items.extend(recursive_render(k, d[k], level))
RenderKeys(kvs, level, n) ==
  IF n > Len(kvs) THEN <<>>
  ELSE recursive_render(kvs[n].k, kvs[n].v, level) \o RenderKeys(kvs, level, n + 1)

\* for sub_item in val: a dict is rendered key by key one level down, anything else
\* is a bullet row
RenderListItems(elems, level, n) ==
  IF n > Len(elems) THEN <<>>
  ELSE (IF IsDict(elems[n]) THEN RenderKeys(elems[n].items, level + 1, 1)
        ELSE <<Fact(Indent(level) \o <<" ", " ", "U+2022">>, Strip(PyStr(elems[n])))>>)
       \o RenderListItems(elems, level, n + 1)

recursive_render(key, val, level) ==
  IF key = K_ghname
    THEN IF IsStr(val) /\ Strip(val.s) # <<>>
           THEN <<Fact(L_Divider2, Strip(val.s))>> ELSE <<>>
  ELSE IF key = K_gueber2
    THEN IF IsStr(val) /\ Strip(val.s) # <<>>
           THEN <<Fact(L_Divider1, Strip(val.s))>> ELSE <<>>
  ELSE IF key = K_gueber1 THEN <<>>
  ELSE IF FieldLabel(key).none THEN <<>>
  ELSE
    LET label_raw     == FieldLabel(key).label
        label_text    == IF label_raw # <<>> THEN label_raw ELSE Capitalize(key)
        display_label == Indent(level) \o label_text
    IN  CASE IsStr(val) ->
               IF Strip(val.s) # <<>> THEN <<Fact(display_label, Strip(val.s))>> ELSE <<>>
          [] IsList(val) ->
               (IF key \notin {K_gebiet, K_gebiete}
                  THEN <<Fact(display_label, <<>>)>> ELSE <<>>)
               \o RenderListItems(Elems(val), level, 1)
          [] IsDict(val) ->
               (IF key # K_gebiete THEN <<Fact(display_label, <<>>)>> ELSE <<>>)
               \o RenderKeys(val.items, IF key # K_gebiete THEN level + 1 ELSE level, 1)
          [] OTHER -> <<>>

\* get_single_value(val)
get_single_value(val) ==
  IF IsList(val) THEN (IF val.items # <<>> THEN val.items[1].v ELSE Str(<<>>)) ELSE val

\* Python's `a or b`
Or(a, b) == IF Truthy(a) THEN a ELSE b

Section(title, facts) == [title |-> title, facts |-> facts]

\* the catalog pass takes key: a str with text, under a label that is neither None nor ""
CatalogTakes(d, key) ==
  /\ IsStr(Get(d, key))
  /\ Strip(Get(d, key).s) # <<>>
  /\ ~FieldLabel(key).none
  /\ FieldLabel(key).label # <<>>

\* the facts of one SECTION_ORDER entry
CatalogFacts(d, field_keys) ==
  LET taken == SelectSeq(field_keys, LAMBDA key : CatalogTakes(d, key))
  IN  [n \in 1..Len(taken) |-> Fact(FieldLabel(taken[n]).label, Strip(Get(d, taken[n]).s))]

\* 1. the sections of SECTION_ORDER that collected a fact
CatalogSections(d) ==
  LET all == [n \in 1..Len(SECTION_ORDER) |->
                Section(SECTION_ORDER[n].title, CatalogFacts(d, SECTION_ORDER[n].keys))]
  IN  SelectSeq(all, LAMBDA sec : sec.facts # <<>>)

\* used_keys after the catalog pass
UsedKeys(d) ==
  {key \in UNION {{SECTION_ORDER[n].keys[m] : m \in 1..Len(SECTION_ORDER[n].keys)} :
                    n \in 1..Len(SECTION_ORDER)} : CatalogTakes(d, key)}

\* ExtraFacts without `k not in used_keys`: the keys of the catalog pass are
\* rendered once more
RECURSIVE ExtraFactsOfUsedToo(_, _, _)
ExtraFactsOfUsedToo(d, used_keys, n) ==
  IF n > Len(d.items) THEN <<>>
  ELSE LET key == d.items[n].k
           val == d.items[n].v
       IN  (IF key \notin {K_id, K_gebiete} /\ Truthy(val)
              THEN recursive_render(key, val, 0) ELSE <<>>)
           \o ExtraFactsOfUsedToo(d, used_keys, n + 1)

\* remaining_keys, and for each one with a truthy value its rendered rows
RECURSIVE ExtraFacts(_, _, _)
ExtraFacts(d, used_keys, n) ==
  IF n > Len(d.items) THEN <<>>
  ELSE LET key == d.items[n].k
           val == d.items[n].v
       IN  (IF key \notin used_keys /\ key \notin {K_id, K_gebiete} /\ Truthy(val)
              THEN recursive_render(key, val, 0) ELSE <<>>)
           \o ExtraFacts(d, used_keys, n + 1)

\* 2. "Weitere Informationen", if anything is left
ResidualSections(d) ==
  LET extra_facts == ExtraFacts(d, UsedKeys(d), 1)
  IN  IF extra_facts # <<>> THEN <<Section(T_Weitere, extra_facts)>> ELSE <<>>

\* block_title
BlockTitle(block) ==
  Strip(PyStr(Or(get_single_value(Get(block, K_gueber1)), Str(T_Gebiete))))

\* for item in gebiet_items: ...
RECURSIVE GebietFacts(_, _)
GebietFacts(gebiet_items, n) ==
  IF n > Len(gebiet_items) THEN <<>>
  ELSE LET item == gebiet_items[n]
       IN  (IF IsDict(item) THEN RenderKeys(item.items, 0, 1)
            ELSE IF Truthy(item) THEN <<Fact(L_Info, PyStr(item))>>
            ELSE <<>>)
           \o GebietFacts(gebiet_items, n + 1)

\* block_facts
BlockFacts(block) ==
  LET raw == Get(block, K_gebiet)
      gebiet_items == IF ~HasKey(block, K_gebiet) THEN <<>>
                      ELSE IF IsList(raw) THEN Elems(raw) ELSE <<raw>>
  IN  (IF HasKey(block, K_gueber2)
         THEN recursive_render(K_gueber2, Get(block, K_gueber2), 0) ELSE <<>>)
      \o GebietFacts(gebiet_items, 1)

\* AddBlock grouping by title: the block's facts go to the first section of that
\* title, wherever it is
AddBlockByTitle(sections, block) ==
  IF ~IsDict(block) \/ BlockFacts(block) = <<>> THEN sections
  ELSE IF \E n \in 1..Len(sections) : sections[n].title = BlockTitle(block)
    THEN [sections EXCEPT ![Min({n \in 1..Len(sections) :
                                  sections[n].title = BlockTitle(block)})].facts =
            @ \o BlockFacts(block)]
  ELSE Append(sections, Section(BlockTitle(block), BlockFacts(block)))

\* if block_facts: append to the last section when its title is block_title, else
\* start a new section
AddBlock(sections, block) ==
  IF ~IsDict(block) \/ BlockFacts(block) = <<>> THEN sections
  ELSE IF sections # <<>> /\ sections[Len(sections)].title = BlockTitle(block)
    THEN [sections EXCEPT ![Len(sections)].facts = @ \o BlockFacts(block)]
  ELSE Append(sections, Section(BlockTitle(block), BlockFacts(block)))

RECURSIVE AddBlocks(_, _)
AddBlocks(sections, blocks) ==
  IF blocks = <<>> THEN sections
  ELSE AddBlocks(AddBlock(sections, Head(blocks)), Tail(blocks))

\* 3. the 'gebiete' blocks
TerritoryPass(sections, d) ==
  LET gebiete_raw == Get(d, K_gebiete)
  IN  IF ~Truthy(gebiete_raw) THEN sections
      ELSE AddBlocks(sections,
                     IF IsList(gebiete_raw) THEN Elems(gebiete_raw) ELSE <<gebiete_raw>>)

build_sections(d) == TerritoryPass(CatalogSections(d) \o ResidualSections(d), d)

(***************************************************************************)
(* The page loop                                                           *)
(***************************************************************************)

\* an int, as a JSON value
IntVal(n) == [t |-> "i", s |-> IntStr(n), items |-> <<>>]

\* name = get_single_value(d.get("hname")); if not name: name = "Unbekannt"
NameOf(d) == Or(get_single_value(Get(d, K_hname)), Str(S_Unbekannt))

\* unique_slug that forgets `used_slugs[base] += 1`: the suffix is computed, the
\* registry keeps the old count
unique_slug_stale(name, used) ==
  LET base == slugify(name)
      hit  == {n \in 1..Len(used) : used[n].base = base}
  IN  IF hit = {}
        THEN [slug |-> base, used |-> Append(used, [base |-> base, n |-> 1])]
        ELSE [slug |-> base \o <<"-">> \o IntStr(used[CHOOSE m \in hit : TRUE].n + 1),
              used |-> used]

\* unique_slug(name) on the registry `used`: [slug |-> the slug returned,
\* used |-> the registry afterwards]
unique_slug(name, used) ==
  LET base == slugify(name)
      hit  == {n \in 1..Len(used) : used[n].base = base}
  IN  IF hit = {}
        THEN [slug |-> base, used |-> Append(used, [base |-> base, n |-> 1])]
        ELSE LET n == CHOOSE m \in hit : TRUE
             IN  [slug |-> base \o <<"-">> \o IntStr(used[n].n + 1),
                  used |-> [used EXCEPT ![n].n = @ + 1]]

\* url_path
UrlPath(slug) == S_staaten \o slug \o <<"/">>

\* description_parts
DescriptionParts(d) ==
  LET hauptstadt == get_single_value(Get(d, K_hauptstadt))
      einw       == get_single_value(Get(d, K_einwzahl))
  IN  (IF Truthy(hauptstadt) THEN <<S_HauptstadtColon \o PyStr(hauptstadt)>> ELSE <<>>)
      \o (IF Truthy(einw) THEN <<S_EinwohnerColon \o PyStr(einw)>> ELSE <<>>)

\* subtitle or f"Fakten und Steckbrief zu {name}."
DescriptionBase(d) ==
  Or(get_single_value(Get(d, K_sname)), Str(S_Fakten \o PyStr(NameOf(d)) \o <<".">>))

\* description + " - " + ... raises TypeError when the subtitle is a dict
DescriptionRaises(d) == DescriptionParts(d) # <<>> /\ ~IsStr(DescriptionBase(d))

\* description: cut to 160 characters where the parts are appended
Description(d) ==
  IF DescriptionParts(d) # <<>>
    THEN Str(Prefix(DescriptionBase(d).s \o S_Dash \o Join(S_Dot, DescriptionParts(d)),
                    MaxDescription))
    ELSE DescriptionBase(d)

\* question_tmpl.format(name): the template's one "{}" replaced by str(name)
Format(tmpl, arg) ==
  LET at == {n \in 1..(Len(tmpl) - 1) : tmpl[n] = "{" /\ tmpl[n + 1] = "}"}
  IN  IF at = {} THEN tmpl
      ELSE SubSeq(tmpl, 1, Min(at) - 1) \o PyStr(arg) \o SubSeq(tmpl, Min(at) + 2, Len(tmpl))

\* add_faq without its `if val:`: an entry for an absent field as well
add_faq_always(d, question_tmpl, key, label_in_answer) ==
  LET val == get_single_value(Get(d, key))
  IN  <<Dct(<<[k |-> J_type, v |-> Str(J_Question)],
              [k |-> J_name, v |-> Str(Format(question_tmpl, NameOf(d)))],
              [k |-> J_acceptedAnswer,
               v |-> Dct(<<[k |-> J_type, v |-> Str(J_Answer)],
                           [k |-> J_text,
                            v |-> Str(label_in_answer \o <<" ">>
                                      \o PyStr(val) \o <<".">>)]>>)]>>)>>

\* add_faq(question_tmpl, key, label_in_answer): the items it appends
add_faq(d, question_tmpl, key, label_in_answer) ==
  LET val == get_single_value(Get(d, key))
  IN  IF Truthy(val)
        THEN <<Dct(<<[k |-> J_type, v |-> Str(J_Question)],
                     [k |-> J_name, v |-> Str(Format(question_tmpl, NameOf(d)))],
                     [k |-> J_acceptedAnswer,
                      v |-> Dct(<<[k |-> J_type, v |-> Str(J_Answer)],
                                  [k |-> J_text,
                                   v |-> Str(label_in_answer \o <<" ">>
                                             \o PyStr(val) \o <<".">>)]>>)]>>)>>
        ELSE <<>>

\* faq_items after the five add_faq calls
FaqItems(d) ==
  add_faq(d, Q_einwzahl, K_einwzahl, A_einwzahl)
  \o add_faq(d, Q_hauptstadt, K_hauptstadt, A_hauptstadt)
  \o add_faq(d, Q_waehrung, K_waehrung, A_waehrung)
  \o add_faq(d, Q_amtssprache, K_amtssprache, A_amtssprache)
  \o add_faq(d, Q_flaeche, K_flaeche, A_flaeche)

\* autokennz = d.get("autokennz", "")
Autokennz(d) == IF HasKey(d, K_autokennz) THEN Get(d, K_autokennz) ELSE Str(<<>>)

\* "|" in autokennz: a substring of a str, an element of a list, a key of a dict
HasPipe(v) ==
  CASE IsStr(v) -> \E n \in 1..Len(v.s) : v.s[n] = "|"
    [] IsList(v) -> \E n \in 1..Len(v.items) : v.items[n].v = Str(<<"|">>)
    [] OTHER -> HasKey(v, <<"|">>)

\* s.split("|")[-1]
AfterLastPipe(s) ==
  LET at == {n \in 1..Len(s) : s[n] = "|"}
  IN  IF at = {} THEN s ELSE SubSeq(s, Max(at) + 1, Len(s))

\* autokennz.split / autokennz.strip raise AttributeError on a list or a dict
FlagRaises(d) ==
  LET autokennz == Autokennz(d)
  IN  (HasPipe(autokennz) \/ Truthy(autokennz)) /\ ~IsStr(autokennz)

\* flag_code
FlagCode(d) ==
  LET autokennz == Autokennz(d)
      iso3 == IF HasPipe(autokennz) THEN Strip(AfterLastPipe(autokennz.s))
              ELSE IF Truthy(autokennz) THEN Strip(autokennz.s)
              ELSE <<>>
  IN  Lower(Iso2(iso3))

\* flag_url
FlagUrl(d) == IF FlagCode(d) # <<>> THEN Str(S_flagcdn \o FlagCode(d) \o S_png) ELSE None

\* country_schema, as built (None values still in it)
CountrySchema(d, canonical) ==
  LET hauptstadt  == get_single_value(Get(d, K_hauptstadt))
      einw        == get_single_value(Get(d, K_einwzahl))
      flaeche     == get_single_value(Get(d, K_flaeche))
      amtssprache == get_single_value(Get(d, K_amtssprache))
  IN  Dct(<<[k |-> J_type, v |-> Str(J_Country)],
            [k |-> J_id, v |-> Str(canonical \o J_hash_country)],
            [k |-> J_name, v |-> NameOf(d)],
            [k |-> J_alternateName, v |-> Or(get_single_value(Get(d, K_sname)), None)],
            [k |-> J_description, v |-> Description(d)],
            [k |-> J_identifier, v |-> Or(get_single_value(Get(d, K_id)), None)]>>
          \o (IF Truthy(hauptstadt)
                THEN <<[k |-> J_capital,
                        v |-> Dct(<<[k |-> J_type, v |-> Str(J_City)],
                                    [k |-> J_name, v |-> hauptstadt]>>)]>>
                ELSE <<>>)
          \o (IF Truthy(einw) THEN <<[k |-> J_population, v |-> einw]>> ELSE <<>>)
          \o (IF Truthy(flaeche) THEN <<[k |-> J_areaServed, v |-> flaeche]>> ELSE <<>>)
          \o (IF Truthy(amtssprache)
                THEN <<[k |-> J_knowsLanguage, v |-> amtssprache]>> ELSE <<>>)
          \o (IF Truthy(FlagUrl(d)) THEN <<[k |-> J_image, v |-> FlagUrl(d)]>> ELSE <<>>))

\* jsonld_obj
JsonLdObj(d, canonical) ==
  Dct(<<[k |-> J_context, v |-> Str(J_schema_org)],
        [k |-> J_graph,
         v |-> Lst(<<Dct(<<[k |-> J_type, v |-> Str(J_WebPage)],
                           [k |-> J_id, v |-> Str(canonical)],
                           [k |-> J_url, v |-> Str(canonical)],
                           [k |-> J_name,
                            v |-> Str(PyStr(NameOf(d)) \o S_Dash \o SITE_NAME)],
                           [k |-> J_description, v |-> Description(d)],
                           [k |-> J_inLanguage, v |-> Str(J_de)],
                           [k |-> J_breadcrumb,
                            v |-> Dct(<<[k |-> J_id,
                                         v |-> Str(canonical \o J_hash_breadcrumb)]>>)],
                           [k |-> J_mainEntity,
                            v |-> Dct(<<[k |-> J_id,
                                         v |-> Str(canonical \o J_hash_country)]>>)]>>),
                     CountrySchema(d, canonical),
                     Dct(<<[k |-> J_type, v |-> Str(J_BreadcrumbList)],
                           [k |-> J_id, v |-> Str(canonical \o J_hash_breadcrumb)],
                           [k |-> J_itemListElement,
                            v |-> Lst(<<Dct(<<[k |-> J_type, v |-> Str(J_ListItem)],
                                              [k |-> J_position, v |-> IntVal(1)],
                                              [k |-> J_name, v |-> Str(S_AlleLaender)],
                                              [k |-> J_item,
                                               v |-> Str(BASE_URL \o <<"/">>)]>>),
                                        Dct(<<[k |-> J_type, v |-> Str(J_ListItem)],
                                              [k |-> J_position, v |-> IntVal(2)],
                                              [k |-> J_name, v |-> NameOf(d)],
                                              [k |-> J_item, v |-> Str(canonical)]>>)>>)]>>)>>
                   \o (IF FaqItems(d) # <<>>
                         THEN <<Dct(<<[k |-> J_type, v |-> Str(J_FAQPage)],
                                      [k |-> J_mainEntity, v |-> Lst(FaqItems(d))]>>)>>
                         ELSE <<>>))]>>)

\* clean_obj(obj): the None values of every dict dropped, at every depth
RECURSIVE clean_obj(_)
clean_obj(obj) ==
  CASE IsDict(obj) ->
         LET kept == SelectSeq(obj.items, LAMBDA e : e.v.t # "none")
         IN  Dct([n \in 1..Len(kept) |-> [k |-> kept[n].k, v |-> clean_obj(kept[n].v)]])
    [] IsList(obj) ->
         Lst([n \in 1..Len(obj.items) |-> clean_obj(obj.items[n].v)])
    [] OTHER -> obj

\* hint = d.get("hauptstadt") or d.get("flaeche") or ""; a list gives its first element
Hint(d) ==
  LET hint == Or(Or(Get(d, K_hauptstadt), Get(d, K_flaeche)), Str(<<>>))
  IN  PyStr(IF IsList(hint) THEN hint.items[1].v ELSE hint)

\* what one pass of the page loop hands to tpl_state.render and writes to out_file
Page(d, slug) ==
  LET canonical == BASE_URL \o UrlPath(slug)
  IN  [path        |-> S_dist \o UrlPath(slug) \o S_index_html,
       title       |-> PyStr(NameOf(d)) \o S_Dash \o SITE_NAME,
       description |-> Description(d),
       canonical   |-> canonical,
       name        |-> NameOf(d),
       subtitle    |-> PyStr(Or(Get(d, K_sname), Str(<<>>))),
       sections    |-> build_sections(d),
       updated     |-> PyStr(Or(Get(d, K_stand), Str(<<>>))),
       jsonld      |-> clean_obj(JsonLdObj(d, canonical)),
       flag_code   |-> FlagCode(d),
       og_image    |-> FlagUrl(d)]

\* the index card of the record
Card(d, slug) ==
  [name |-> NameOf(d), url |-> UrlPath(slug), hint |-> Hint(d), flag_code |-> FlagCode(d)]

\* out_file.write_text(html): a file at the same path is overwritten
WriteFile(fs, page) ==
  IF \E n \in 1..Len(fs) : fs[n].path = page.path
    THEN [fs EXCEPT ![CHOOSE n \in 1..Len(fs) : fs[n].path = page.path] = page]
    ELSE Append(fs, page)

\* sorted(...): Python's sort is stable, so an element goes after its equals
RECURSIVE InsertCard(_, _)
InsertCard(sorted, card) ==
  IF sorted = <<>> THEN <<card>>
  ELSE IF StrLess(Lower(card.name.s), Lower(Head(sorted).name.s)) THEN <<card>> \o sorted
  ELSE <<Head(sorted)>> \o InsertCard(Tail(sorted), card)

\* sorted(index_cards, key=lambda x: x["name"].lower())
RECURSIVE SortedCards(_)
SortedCards(cards) ==
  IF cards = <<>> THEN <<>>
  ELSE InsertCard(SortedCards(SubSeq(cards, 1, Len(cards) - 1)), cards[Len(cards)])

\* x["name"].lower() raises AttributeError when a card's name is a dict
IndexSortRaises(cards) == \E n \in 1..Len(cards) : ~IsStr(cards[n].name)

RECURSIVE InsertStr(_, _)
InsertStr(sorted, s) ==
  IF sorted = <<>> THEN <<s>>
  ELSE IF StrLess(s, Head(sorted)) THEN <<s>> \o sorted
  ELSE <<Head(sorted)>> \o InsertStr(Tail(sorted), s)

\* sorted(urls)
RECURSIVE SortedStrs(_)
SortedStrs(ss) ==
  IF ss = <<>> THEN <<>>
  ELSE InsertStr(SortedStrs(SubSeq(ss, 1, Len(ss) - 1)), ss[Len(ss)])

\* urls = [BASE_URL/] + [BASE_URL + c["url"] for c in index_cards]
Urls(cards) == <<BASE_URL \o <<"/">>>> \o [n \in 1..Len(cards) |-> BASE_URL \o cards[n].url]

(***************************************************************************)
(* Source documents: the <staat> elements the script is run on              *)
(***************************************************************************)

\* <tag>text</tag>
Leaf(tag, text) == [tag |-> tag, text |-> text, kids |-> <<>>]

\* <tag> kids </tag>
Node(tag, kids) == [tag |-> tag, text |-> <<>>, kids |-> kids]

Staat(kids) == Node(<<"s", "t", "a", "a", "t">>, kids)

\* every sequence over S of length lo..hi
SeqsOf(S, lo, hi) == UNION {[1..m -> S] : m \in lo..hi}

\* n times the character ch
Rep(ch, n) == [m \in 1..n |-> ch]

K_foo == <<"f", "o", "o">>

K_bar == <<"b", "a", "r">>

K_gid == <<"g", "i", "d">>

K_gflaeche == <<"g", "f", "l", "a", "e", "c", "h", "e">>

N_Atlantis == <<"A", "t", "l", "a", "n", "t", "i", "s">>

N_Beispielland == <<"B", "e", "i", "s", "p", "i", "e", "l", "l", "a", "n", "d">>

V_HauptstadtX == <<"H", "a", "u", "p", "t", "s", "t", "a", "d", "t", " ", "X">>

V_Million == <<"1", "0", "0", "0", "0", "0", "0">>

\* bounds of the documents
MaxStaaten == 3

MaxKids == 3

MaxBlocks == 3

\* display names: two that slugify to "atlantis" (one of them through case, an
\* umlaut and punctuation), one whose own slug is "atlantis-2", a blank one
Names ==
  {N_Atlantis, <<"A", "T", "L", "U+00C4", "N", "T", "I", "S", "!">>,
   N_Atlantis \o <<" ", "2">>, <<" ">>}

\* countries that are only named, and a <staat> without children, which the loader
\* skips
NamedStaaten == {Staat(<<Leaf(K_hname, nm)>>) : nm \in Names}
                  \cup {Leaf(<<"s", "t", "a", "a", "t">>, <<" ">>)}

NameDocs == SeqsOf(NamedStaaten, 0, MaxStaaten)

\* children of a country: plain, blank, suppressed, repeated and nested fields, and a
\* territory block
FieldPool ==
  {Leaf(K_id, <<"7">>),
   Leaf(K_foo, <<" ">>),
   Leaf(K_foo, <<" ", "a", " ">>),
   Leaf(K_hauptstadt, <<"R", "o", "m">>),
   Leaf(K_autokennz, <<"I", " ", "|", " ", "I", "T", "A">>),
   Node(K_foo, <<Leaf(K_id, <<"7">>), Leaf(K_bar, <<" ">>)>>),
   Node(K_hname, <<Leaf(K_foo, <<"8">>)>>),
   Node(K_gebiete, <<Leaf(K_gueber1, <<>>),
                     Node(K_gebiet, <<Leaf(K_gid, <<"7">>), Leaf(K_gid, <<"7">>),
                                      Leaf(K_gflaeche, <<"9">>)>>)>>)}

FieldDocs == {<<Staat(kids)>> : kids \in SeqsOf(FieldPool, 1, MaxKids)}

\* the scenario record: hname, hauptstadt and einwzahl, nothing else
Beispielland ==
  Staat(<<Leaf(K_hname, N_Beispielland), Leaf(K_hauptstadt, V_HauptstadtX),
          Leaf(K_einwzahl, V_Million)>>)

\* subtitles up to and beyond the 160 characters of a description
SnameLens == {0, 3, 150, 161}

\* countries with a subtitle (a text of some length, or nested elements), with and
\* without a name, a capital and a population
DescribedStaaten ==
  {Staat(nm \o sn \o hs \o ew) :
     nm \in {<<>>, <<Leaf(K_hname, <<"R", "o", "m">>)>>},
     sn \in {<<Leaf(K_sname, Rep("x", n))>> : n \in SnameLens}
              \cup {<<Node(K_sname, <<Leaf(K_foo, <<"a">>)>>)>>},
     hs \in {<<>>, <<Leaf(K_hauptstadt, <<"R", "o", "m">>)>>},
     ew \in {<<>>, <<Leaf(K_einwzahl, <<"5">>)>>}}

PageDocs ==
  {<<st>> : st \in DescribedStaaten}
    \cup SeqsOf({Beispielland, Staat(<<Leaf(K_hname, N_Atlantis)>>)}, 1, MaxStaaten)

T_Inseln == <<"I", "n", "s", "e", "l", "n">>

\* a block titled "Inseln" with a territory of its own
B_Inseln ==
  Node(K_gebiete, <<Leaf(K_gueber1, T_Inseln),
                    Node(K_gebiet, <<Leaf(K_ghname, <<"A">>), Leaf(K_gid, <<"7">>)>>)>>)

\* a block titled "Kap" with a category header and two territories
B_Kap ==
  Node(K_gebiete, <<Leaf(K_gueber1, <<"K", "a", "p">>), Leaf(K_gueber2, <<"K">>),
                    Node(K_gebiet, <<Leaf(K_ghname, <<"B">>)>>),
                    Node(K_gebiet, <<Leaf(K_gflaeche, <<"9">>)>>)>>)

\* <gebiete> blocks: titled, untitled, with a category header, without facts, titled
\* like the residual section, and one that is no mapping
BlockPool ==
  {B_Inseln,
   B_Kap,
   Node(K_gebiete, <<Leaf(K_gueber1, <<"K", "a", "p">>), Leaf(K_gebiet, <<" ">>)>>),
   Node(K_gebiete, <<Leaf(K_gebiet, <<"c">>)>>),
   Node(K_gebiete, <<Leaf(K_gueber1, T_Weitere), Leaf(K_gebiet, <<"d">>)>>),
   Leaf(K_gebiete, <<"e">>)}

\* countries with up to MaxBlocks blocks, and one with two blocks of one title, a
\* block of another title and a block of the first title again
TerritoryDocs ==
  {<<Staat(pre \o blocks)>> :
     pre \in {<<Leaf(K_hname, <<"R", "o", "m">>)>>, <<Leaf(K_foo, <<"a">>)>>},
     blocks \in SeqsOf(BlockPool, 1, MaxBlocks) \cup {<<B_Inseln, B_Inseln, B_Kap, B_Inseln>>}}

Docs == NameDocs \cup FieldDocs \cup PageDocs \cup TerritoryDocs

(***************************************************************************)
(* The script as a state machine                                           *)
(***************************************************************************)

\* for st in found_states: d = parse_element(st); states.append(d) or a warning
LoadStaat ==
  /\ pc = "load"
  /\ li < Len(doc)
  /\ LET d == parse_element(doc[li + 1])
     IN  IF Truthy(d) /\ IsDict(d)
           THEN states' = Append(states, d) /\ warnings' = warnings
           ELSE states' = states /\ warnings' = warnings + 1
  /\ li' = li + 1
  /\ UNCHANGED <<doc, pc, i, used_slugs, files, index_cards, index_states, sitemap>>

\* between the loops: the output directories, used_slugs = {}, index_cards = []
StartPages ==
  /\ pc = "load"
  /\ li = Len(doc)
  /\ pc' = "pages"
  /\ used_slugs' = <<>>
  /\ index_cards' = <<>>
  /\ UNCHANGED <<doc, li, states, warnings, i, files, index_states, sitemap>>

\* one pass of `for d in states`: the slug is taken first; an exception on the way
\* (the description's TypeError, the flag code's AttributeError) ends the script
\* before the page is written
EmitPage ==
  /\ pc = "pages"
  /\ i < Len(states)
  /\ LET d  == states[i + 1]
         us == unique_slug(NameOf(d), used_slugs)
     IN  /\ used_slugs' = us.used
         /\ IF DescriptionRaises(d) \/ FlagRaises(d)
              THEN /\ pc' = "crashed"
                   /\ UNCHANGED <<files, index_cards>>
              ELSE /\ pc' = pc
                   /\ files' = WriteFile(files, Page(d, us.slug))
                   /\ index_cards' = Append(index_cards, Card(d, us.slug))
  /\ i' = i + 1
  /\ UNCHANGED <<doc, li, states, warnings, index_states, sitemap>>

\* after the loop: the index page over the sorted cards, sitemap.xml, robots.txt
WriteIndex ==
  /\ pc = "pages"
  /\ i = Len(states)
  /\ IF IndexSortRaises(index_cards)
       THEN /\ pc' = "crashed"
            /\ UNCHANGED <<index_states, sitemap>>
       ELSE /\ pc' = "done"
            /\ index_states' = SortedCards(index_cards)
            /\ sitemap' = SortedStrs(Urls(index_cards))
  /\ UNCHANGED <<doc, li, states, warnings, i, used_slugs, files, index_cards>>

Next == LoadStaat \/ StartPages \/ EmitPage \/ WriteIndex

InitWith(d) ==
  /\ doc = d
  /\ pc = "load"
  /\ li = 0
  /\ states = <<>>
  /\ warnings = 0
  /\ i = 0
  /\ used_slugs = <<>>
  /\ files = <<>>
  /\ index_cards = <<>>
  /\ index_states = <<>>
  /\ sitemap = <<>>

Init == \E d \in Docs : InitWith(d)

Spec == Init /\ [][Next]_vars

\* the script on the documents of each family
InitNames == \E d \in NameDocs : InitWith(d)

SpecNames == InitNames /\ [][Next]_vars

InitFields == \E d \in FieldDocs : InitWith(d)

SpecFields == InitFields /\ [][Next]_vars

InitPages == \E d \in PageDocs : InitWith(d)

SpecPages == InitPages /\ [][Next]_vars

InitTerritory == \E d \in TerritoryDocs : InitWith(d)

SpecTerritory == InitTerritory /\ [][Next]_vars

(***************************************************************************)
(* Claims                                                                  *)
(***************************************************************************)

\* the <staat> elements the loader has turned into records, in order
LoadedElems == SelectSeq(SubSeq(doc, 1, li), LAMBDA el : Len(el.kids) > 0)

\* the positions of the children of elem that carry `tag`, ascending
Occurrences(elem, tag) ==
  SelectSeq([n \in 1..Len(elem.kids) |-> n], LAMBDA n : elem.kids[n].tag = tag)

\* the tags of the children of elem, each at its first occurrence
FirstTags(elem) ==
  LET first == SelectSeq([n \in 1..Len(elem.kids) |-> n],
                         LAMBDA n : \A m \in 1..(n - 1) : elem.kids[m].tag # elem.kids[n].tag)
  IN  [n \in 1..Len(first) |-> elem.kids[first[n]].tag]

\* val is text without its surrounding whitespace
IsTrimOf(val, text) ==
  /\ val = <<>> \/ (~IsSpace(val[1]) /\ ~IsSpace(val[Len(val)]))
  /\ \E a \in 0..Len(text) :
       /\ a + Len(val) <= Len(text)
       /\ SubSeq(text, a + 1, a + Len(val)) = val
       /\ \A n \in (1..a) \cup ((a + Len(val) + 1)..Len(text)) : IsSpace(text[n])

\* val is what the Tree Normalizer is to return for elem
RECURSIVE Normalizes(_, _)
Normalizes(elem, val) ==
  IF elem.kids = <<>>
    THEN IsStr(val) /\ IsTrimOf(val.s, elem.text)
    ELSE /\ IsDict(val)
         /\ \A n, m \in 1..Len(val.items) : n # m => val.items[n].k # val.items[m].k
         /\ Keys(val) = FirstTags(elem)
         /\ \A n \in 1..Len(val.items) :
              LET occ == Occurrences(elem, val.items[n].k)
                  v   == val.items[n].v
              IN  IF Len(occ) >= 2
                    THEN /\ IsList(v)
                         /\ Len(v.items) = Len(occ)
                         /\ \A q \in 1..Len(occ) :
                              Normalizes(elem.kids[occ[q]], v.items[q].v)
                    ELSE Normalizes(elem.kids[occ[1]], v)

\* C10: parse_element gives an element with children a mapping without duplicate
\* keys, its keys in the first-occurrence order of the child tags, a tag that occurs
\* n >= 2 times mapped to the list of its n normalized values in document order, a
\* tag that occurs once mapped to its bare normalized value; a childless element
\* gives its trimmed text, "" when there is none or only whitespace.
C10_Normalized ==
  /\ Len(states) = Len(LoadedElems)
  /\ \A j \in 1..Len(states) : Normalizes(LoadedElems[j], states[j])

\* a loaded record in which a repeated tag, folded into a list, sits beside a nested
\* element whose tag occurs once
C10_Witness ==
  \E j \in 1..Len(states) :
    /\ \E n \in 1..Len(states[j].items) :
         IsList(states[j].items[n].v) /\ Len(states[j].items[n].v.items) >= 2
    /\ \E n \in 1..Len(LoadedElems[j].kids) :
         /\ Len(Occurrences(LoadedElems[j], LoadedElems[j].kids[n].tag)) = 1
         /\ LoadedElems[j].kids[n].kids # <<>>


\* the base slug of the j-th record
BaseSlug(j) == slugify(NameOf(states[j]))

\* how many of the first j records have the base slug of the j-th
Rank(j) == Cardinality({m \in 1..j : BaseSlug(m) = BaseSlug(j)})

\* C1: no two records are given the same final slug, that is the same URL
\* /staaten/<slug>/.
C1_UniqueSlugs ==
  \A j, k \in 1..Len(index_cards) : j # k => index_cards[j].url # index_cards[k].url

\* C2: when the run is over, there are as many detail-page files as records that
\* normalized to a non-empty mapping, and as many index cards; every other <staat>
\* element was skipped with one warning.
C2_OnePagePerRecord ==
  pc = "done" =>
    /\ Len(files) = Len(states)
    /\ Len(index_cards) = Len(states)
    /\ Len(states) = Len(LoadedElems)
    /\ warnings = Len(doc) - Len(LoadedElems)

\* C8: the first record in input order with a base slug b is given b itself and the
\* k-th, k >= 2, is given b-k; the registry is never reset: it counts, for each base
\* slug, the records started on so far.
C8_SuffixInInputOrder ==
  /\ \A j \in 1..Len(index_cards) :
       index_cards[j].url =
         S_staaten \o (IF Rank(j) = 1 THEN BaseSlug(j)
                       ELSE BaseSlug(j) \o <<"-">> \o IntStr(Rank(j))) \o <<"/">>
  /\ pc \in {"pages", "done", "crashed"} =>
       /\ \A j \in 1..i : \E n \in 1..Len(used_slugs) :
            /\ used_slugs[n].base = BaseSlug(j)
            /\ used_slugs[n].n = Cardinality({m \in 1..i : BaseSlug(m) = BaseSlug(j)})
       /\ \A n, m \in 1..Len(used_slugs) : n # m => used_slugs[n].base # used_slugs[m].base

\* three records with one base slug, reached through different spellings, with their
\* cards written: atlantis, atlantis-2, atlantis-3
C8_Witness ==
  /\ Len(index_cards) >= 3
  /\ \E j, k \in 1..Len(index_cards) :
       /\ j < k
       /\ NameOf(states[j]) # NameOf(states[k])
       /\ BaseSlug(j) = BaseSlug(k)
       /\ Rank(k) = 3
       /\ index_cards[k].url =
            S_staaten \o <<"a", "t", "l", "a", "n", "t", "i", "s", "-", "3">> \o <<"/">>

\* the index of the record whose page is the file f: the last one written to f.path
Producer(f) ==
  Max({j \in 1..Len(index_cards) : S_dist \o index_cards[j].url \o S_index_html = f.path})

\* the description of record d before any cut: the subtitle or the fallback sentence,
\* plus the capital and population facts when there are any
FullDescription(d) ==
  DescriptionBase(d).s
    \o (IF DescriptionParts(d) # <<>> THEN S_Dash \o Join(S_Dot, DescriptionParts(d))
        ELSE <<>>)

\* C4: a generated description of more than 160 characters is stored as exactly its
\* first 160 characters, with or without capital and population facts.
C4_DescriptionCut ==
  \A n \in 1..Len(files) :
    LET d == states[Producer(files[n])]
    IN  (IsStr(DescriptionBase(d)) /\ Len(FullDescription(d)) > MaxDescription) =>
          files[n].description = Str(SubSeq(FullDescription(d), 1, MaxDescription))

\* the scenario record, normalized
BeispielRecord ==
  Dct(<<[k |-> K_hname, v |-> Str(N_Beispielland)],
        [k |-> K_hauptstadt, v |-> Str(V_HauptstadtX)],
        [k |-> K_einwzahl, v |-> Str(V_Million)]>>)

\* the cards of the scenario record where it is the first of its name
FirstBeispiel ==
  {j \in 1..Len(index_cards) :
     states[j] = BeispielRecord /\ \A m \in 1..(j - 1) : states[m] # BeispielRecord}

\* the row ("Hauptstadt", "Hauptstadt X")
CapitalRow == Fact(<<"H", "a", "u", "p", "t", "s", "t", "a", "d", "t">>, V_HauptstadtX)

\* the row ("Anzahl der Einwohner", "1000000")
PopulationRow ==
  Fact(<<"A", "n", "z", "a", "h", "l", " ", "d", "e", "r", " ",
         "E", "i", "n", "w", "o", "h", "n", "e", "r">>, V_Million)

T_Basisdaten == <<"B", "a", "s", "i", "s", "d", "a", "t", "e", "n">>

\* the FAQPage nodes of a JSON-LD payload
FaqNodes(jsonld) ==
  SelectSeq(Elems(Get(jsonld, J_graph)), LAMBDA node : Get(node, J_type) = Str(J_FAQPage))

\* the questions of a payload's FAQ block, in order; none without a block
FaqQuestions(jsonld) ==
  IF FaqNodes(jsonld) = <<>> THEN <<>>
  ELSE LET qs == Elems(Get(FaqNodes(jsonld)[1], J_mainEntity))
       IN  [n \in 1..Len(qs) |->
              <<Get(qs[n], J_name).s, Get(Get(qs[n], J_acceptedAnswer), J_text).s>>]

\* the two question/answer entries of the scenario: population, then capital
BeispielFaq ==
  << <<Format(Q_einwzahl, Str(N_Beispielland)),
       A_einwzahl \o <<" ">> \o V_Million \o <<".">>>>,
     <<Format(Q_hauptstadt, Str(N_Beispielland)),
       A_hauptstadt \o <<" ">> \o V_HauptstadtX \o <<".">>>> >>

\* what the scenario has apart from its sections: the page at slug beispielland, the
\* card's hint, the two FAQ entries
BeispielPage(j, f) ==
  /\ index_cards[j].url = S_staaten \o Lower(N_Beispielland) \o <<"/">>
  /\ index_cards[j].hint = V_HauptstadtX
  /\ f.path = S_dist \o index_cards[j].url \o S_index_html
  /\ FaqQuestions(f.jsonld) = BeispielFaq

\* C5 as claimed: the scenario record yields one page at slug beispielland, a
\* "Basisdaten" section holding only the capital row, a card with hint
\* "Hauptstadt X" and an FAQ block of exactly two entries (population, capital).
C5_ScenarioAsClaimed ==
  \A j \in FirstBeispiel :
    \E n \in 1..Len(files) :
      /\ BeispielPage(j, files[n])
      /\ \E m \in 1..Len(files[n].sections) :
           files[n].sections[m] = Section(T_Basisdaten, <<CapitalRow>>)

\* C5, amended: ... a "Basisdaten" section, the page's only section, holding the
\* population row and then the capital row (einwzahl comes before hauptstadt in
\* SECTION_ORDER) ...
C5_Scenario ==
  \A j \in FirstBeispiel :
    \E n \in 1..Len(files) :
      /\ BeispielPage(j, files[n])
      /\ files[n].sections = <<Section(T_Basisdaten, <<PopulationRow, CapitalRow>>)>>

\* the scenario record alone in its document, its page written
C5_Witness ==
  /\ states = <<BeispielRecord>>
  /\ Len(files) = 1
  /\ FirstBeispiel = {1}
  /\ pc = "done"

\* the keys FIELD_LABELS maps to None
Suppressed ==
  {FIELD_LABELS[n].k : n \in {m \in 1..Len(FIELD_LABELS) : FIELD_LABELS[m].none}}

\* the texts of the leaves of elem, each with `hidden`: whether the leaf or an element
\* around it, below the <staat>, carries a suppressed tag
RECURSIVE LeafTexts(_, _)
LeafTexts(elem, hidden) ==
  IF elem.kids = <<>> THEN {[text |-> Strip(elem.text), hidden |-> hidden]}
  ELSE UNION {LeafTexts(elem.kids[n], hidden \/ elem.kids[n].tag \in Suppressed) :
                n \in 1..Len(elem.kids)}

\* the texts a <staat> element holds under suppressed fields only
HiddenTexts(elem) ==
  {lt.text : lt \in {x \in LeafTexts(elem, FALSE) : x.hidden /\ x.text # <<>>}}
    \ {lt.text : lt \in {x \in LeafTexts(elem, FALSE) : ~x.hidden}}

\* the <staat> element whose page is the file f
ElemOf(f) == LoadedElems[Producer(f)]

\* no row of the sections of f shows a suppressed field of its record: neither its
\* key, as it is or capitalized, as a label nor its text as a value
SectionsHide(f) ==
  \A m \in 1..Len(f.sections) :
    \A q \in 1..Len(f.sections[m].facts) :
      LET fact == f.sections[m].facts[q]
      IN  /\ fact.value \notin HiddenTexts(ElemOf(f))
          /\ \A key \in Suppressed : Strip(fact.label) \notin {key, Capitalize(key)}

\* v is text, or holds it at some depth
RECURSIVE Mentions(_, _)
Mentions(v, texts) ==
  CASE IsStr(v) -> v.s \in texts
    [] IsList(v) \/ IsDict(v) -> \E n \in 1..Len(v.items) : Mentions(v.items[n].v, texts)
    [] OTHER -> FALSE

\* the Country node of a JSON-LD payload
CountryNode(jsonld) ==
  LET nodes == SelectSeq(Elems(Get(jsonld, J_graph)),
                         LAMBDA node : Get(node, J_type) = Str(J_Country))
  IN  nodes[1]

\* C3 as claimed: a suppressed field (label None: id, hname, gid) appears, whatever
\* its value and depth, neither in a section of the page nor in its JSON-LD payload.
C3_SuppressedNowhere ==
  \A n \in 1..Len(files) :
    /\ SectionsHide(files[n])
    /\ ~Mentions(files[n].jsonld, HiddenTexts(ElemOf(files[n])))

\* the one <id> child of elem, when it is a leaf with text: its text
IdText(elem) ==
  LET occ == Occurrences(elem, K_id)
  IN  IF Len(occ) = 1 /\ elem.kids[occ[1]].kids = <<>> THEN Strip(elem.kids[occ[1]].text)
      ELSE <<>>

\* C3, amended: a suppressed field appears, whatever its value and depth, in no
\* section of the page, neither as a label nor as a value; the JSON-LD payload is
\* not covered: its Country node carries the record's id as "identifier".
C3_SuppressedNotInSections ==
  \A n \in 1..Len(files) :
    /\ SectionsHide(files[n])
    /\ IdText(ElemOf(files[n])) # <<>> =>
         Get(CountryNode(files[n].jsonld), J_identifier) = Str(IdText(ElemOf(files[n])))

\* a page with sections whose record has an id of its own, a suppressed field inside
\* a nested element and one inside a territory block
C3_Witness ==
  \E n \in 1..Len(files) :
    LET elem == ElemOf(files[n])
    IN  /\ files[n].sections # <<>>
        /\ IdText(elem) \in HiddenTexts(elem)
        /\ \E a, b \in 1..Len(elem.kids) :
             /\ elem.kids[a].tag = K_foo
             /\ \E m \in 1..Len(elem.kids[a].kids) : elem.kids[a].kids[m].tag = K_id
             /\ elem.kids[b].tag = K_gebiete
             /\ elem.kids[b].kids # <<>>

\* every leaf of elem is empty or whitespace
AllBlank(elem) == \A lt \in LeafTexts(elem, FALSE) : lt.text = <<>>

\* C6: a record whose every leaf is empty or whitespace, whatever its structure,
\* gets its page, and the page has no sections.
C6_BlankGivesNoSections ==
  \A j \in 1..i :
    AllBlank(LoadedElems[j]) =>
      /\ j <= Len(index_cards)
      /\ \E n \in 1..Len(files) :
           /\ files[n].path = S_dist \o index_cards[j].url \o S_index_html
           /\ files[n].sections = <<>>

\* C7: the run never aborts on a record, whatever the shape of its fields.
C7_RunCompletes == pc # "crashed"

\* the territory blocks of record d, in document order
Blocks(d) ==
  LET gebiete_raw == Get(d, K_gebiete)
  IN  IF ~Truthy(gebiete_raw) THEN <<>>
      ELSE IF IsList(gebiete_raw) THEN Elems(gebiete_raw) ELSE <<gebiete_raw>>

\* the blocks of d that produce at least one fact
FactBlocks(d) == SelectSeq(Blocks(d), LAMBDA b : IsDict(b) /\ BlockFacts(b) # <<>>)

\* what is emitted for record d, piece by piece: the sections of the catalog and
\* residual passes, then one piece (derived title, facts) per block with facts
Pieces(d) ==
  CatalogSections(d) \o ResidualSections(d)
    \o [n \in 1..Len(FactBlocks(d)) |->
          Section(BlockTitle(FactBlocks(d)[n]), BlockFacts(FactBlocks(d)[n]))]

\* piece n of ps opens a section: it is one of the first p, which are no blocks, or
\* the piece emitted just before it has another title
Opens(ps, p, n) ==
  \/ n <= p
  \/ n = 1
  \/ ps[n].title # ps[n - 1].title

\* the facts of pieces a..b, in order
RECURSIVE FactsOf(_, _, _)
FactsOf(ps, a, b) ==
  IF a > b THEN <<>> ELSE ps[a].facts \o FactsOf(ps, a + 1, b)

\* C9: a block with facts is added to an existing section only if that section is
\* the last one emitted and has the block's derived title; so consecutive blocks
\* with facts and one title land in one section, whose facts are theirs in block
\* order, and blocks of one title with a section of another title emitted between
\* them stay in separate sections.
C9_AdjacentMerge ==
  \A n \in 1..Len(files) :
    LET d      == states[Producer(files[n])]
        secs   == files[n].sections
        ps     == Pieces(d)
        p      == Len(ps) - Len(FactBlocks(d))
        opener == {a \in 1..Len(ps) : Opens(ps, p, a)}
    IN  /\ Len(secs) = Cardinality(opener)
        /\ \A a \in opener :
             LET landing == Cardinality({m \in opener : m <= a})
                 last    == Min({b \in opener \cup {Len(ps) + 1} : b > a}) - 1
             IN  /\ secs[landing].title = ps[a].title
                 /\ secs[landing].facts = FactsOf(ps, a, last)

\* four blocks with facts: the first two share a title and are in one section, the
\* third has another title, and the fourth, titled like the first two, has a section
\* of its own
C9_Witness ==
  \E n \in 1..Len(files) :
    LET d  == states[Producer(files[n])]
        bs == FactBlocks(d)
        p  == Len(Pieces(d)) - Len(bs)
    IN  /\ Len(bs) = 4
        /\ BlockTitle(bs[1]) = BlockTitle(bs[2])
        /\ BlockTitle(bs[2]) # BlockTitle(bs[3])
        /\ BlockTitle(bs[4]) = BlockTitle(bs[1])
        /\ Len(files[n].sections) = p + 3
        /\ files[n].sections[p + 1].facts = BlockFacts(bs[1]) \o BlockFacts(bs[2])
        /\ files[n].sections[p + 3] = Section(BlockTitle(bs[4]), BlockFacts(bs[4]))

(***************************************************************************)
(* Documents for the section builder's passes                              *)
(***************************************************************************)

K_geolage == <<"g", "e", "o", "l", "a", "g", "e">>

\* children of a country for the passes of build_sections: a key outside the
\* catalog, catalog keys of two sections as text and as a nested element, a labelled
\* key outside SECTION_ORDER, fields nested one and two levels deep, an id, a
\* territory block and one titled like the residual section
RenderPool ==
  {Leaf(K_foo, <<" ", "a", " ">>),
   Leaf(K_hauptstadt, <<"R", "o", "m">>),
   Leaf(K_geolage, <<"S", "u", "e", "d">>),
   Node(K_hauptstadt, <<Leaf(K_foo, <<"c">>)>>),
   Node(K_bar, <<Leaf(K_gflaeche, <<"9">>),
                 Node(K_foo, <<Leaf(K_hauptstadt, <<"U", "l", "m">>),
                               Leaf(K_bar, <<"d">>)>>)>>),
   Leaf(K_gflaeche, <<"5">>),
   Leaf(K_id, <<"7">>),
   B_Inseln,
   Node(K_gebiete, <<Leaf(K_gueber1, T_Weitere), Leaf(K_gebiet, <<"d">>)>>)}

\* a country with something for every pass: an id, catalog keys of two sections
\* against the catalog's order, a catalog key holding a nested element, a key
\* outside the catalog, a territory block titled like the residual section and one
\* with a title of its own
FullStaat ==
  Staat(<<Leaf(K_id, <<"7">>),
          Leaf(K_geolage, <<"S", "u", "e", "d">>),
          Leaf(K_hauptstadt, <<"R", "o", "m">>),
          Node(K_flaeche, <<Leaf(K_foo, <<"c">>)>>),
          Leaf(K_foo, <<" ", "a", " ">>),
          Node(K_gebiete, <<Leaf(K_gueber1, T_Weitere), Leaf(K_gebiet, <<"d">>)>>),
          B_Inseln>>)

RenderDocs ==
  {<<Staat(kids)>> : kids \in SeqsOf(RenderPool, 1, MaxKids)} \cup {<<FullStaat>>}

InitRender == \E d \in RenderDocs : InitWith(d)

SpecRender == InitRender /\ [][Next]_vars

\* the keys recursive_render treats on their own, and the containers it gives no row
Special == {K_ghname, K_gueber2, K_gueber1, K_gebiete, K_gebiet}

\* the keys of SECTION_ORDER
SectionKeys ==
  UNION {{SECTION_ORDER[n].keys[m] : m \in 1..Len(SECTION_ORDER[n].keys)} :
           n \in 1..Len(SECTION_ORDER)}

\* the label of C11: the catalog label of a key of the Field Catalog, else the key
\* with its first letter capitalized
ClaimedLabel(key) ==
  LET hit == {n \in 1..Len(FIELD_LABELS) : FIELD_LABELS[n].k = key}
  IN  IF hit # {} THEN FIELD_LABELS[CHOOSE n \in hit : TRUE].label ELSE Capitalize(key)

\* the rows C11 gives the text fields below elem that reach recursive_render at
\* `level` as a str: leaves with text whose tag occurs once under its parent, is
\* neither special nor suppressed and, at the top, was not taken by the catalog pass
RECURSIVE ClaimedRows(_, _, _)
ClaimedRows(elem, level, n) ==
  IF n > Len(elem.kids) THEN <<>>
  ELSE LET c == elem.kids[n]
       IN  (IF c.tag \in Special \cup Suppressed THEN <<>>
            ELSE IF c.kids # <<>> THEN ClaimedRows(c, level + 1, 1)
            ELSE IF /\ Len(Occurrences(elem, c.tag)) = 1
                    /\ Strip(c.text) # <<>>
                    /\ ~(level = 0 /\ c.tag \in SectionKeys)
              THEN <<Fact(Indent(level) \o ClaimedLabel(c.tag), Strip(c.text))>>
            ELSE <<>>)
           \o ClaimedRows(elem, level, n + 1)

\* the rows of the section of f titled "Weitere Informationen"
ResidualRows(f) ==
  LET at == {m \in 1..Len(f.sections) : f.sections[m].title = T_Weitere}
  IN  IF at = {} THEN <<>> ELSE f.sections[Min(at)].facts

\* how often row occurs in rows
Count(rows, row) == Cardinality({q \in 1..Len(rows) : rows[q] = row})

\* C11: a text value with text under a key that is neither special nor suppressed
\* yields exactly one row (label, value): the label is the catalog label of a
\* catalogued key, else the key with its first letter capitalized, behind two spaces
\* per nesting level.
C11_LabelAsClaimed ==
  \A n \in 1..Len(files) :
    LET claimed == ClaimedRows(ElemOf(files[n]), 0, 1)
    IN  \A q \in 1..Len(claimed) :
          Count(ResidualRows(files[n]), claimed[q]) = Count(claimed, claimed[q])

\* the one child of elem tagged `tag` when it is a leaf with text: its text
OnlyText(elem, tag) ==
  LET occ == Occurrences(elem, tag)
  IN  IF Len(occ) = 1 /\ elem.kids[occ[1]].kids = <<>> THEN Strip(elem.kids[occ[1]].text)
      ELSE <<>>

\* the keys of elem the catalog pass collects: keys of SECTION_ORDER holding text
Collected(elem) == {key \in SectionKeys : OnlyText(elem, key) # <<>>}

\* the catalog sections of elem: per SECTION_ORDER entry with a collected key, its
\* title and the rows (catalog label, text) in the entry's key order
CatalogPart(elem) ==
  LET collected == Collected(elem)
      rows(keys) ==
        LET taken == SelectSeq(keys, LAMBDA key : key \in collected)
        IN  [n \in 1..Len(taken) |->
               Fact(ClaimedLabel(taken[n]), OnlyText(elem, taken[n]))]
      all == [n \in 1..Len(SECTION_ORDER) |->
                Section(SECTION_ORDER[n].title, rows(SECTION_ORDER[n].keys))]
  IN  SelectSeq(all, LAMBDA sec : sec.facts # <<>>)

\* the rows of the residual pass for record d of elem: the fields left by the catalog
\* pass, 'id' and 'gebiete' apart, in the order of the record, each as
\* recursive_render gives it at level 0
RECURSIVE ResidualPart(_, _, _)
ResidualPart(elem, d, n) ==
  IF n > Len(d.items) THEN <<>>
  ELSE LET key == d.items[n].k
       IN  (IF \/ key \in {K_id, K_gebiete}
               \/ (key \in SectionKeys /\ OnlyText(elem, key) # <<>>)
               \/ ~Truthy(d.items[n].v)
              THEN <<>> ELSE recursive_render(key, d.items[n].v, 0))
           \o ResidualPart(elem, d, n + 1)

\* the sections of record d of elem before the territory pass: the catalog sections,
\* then "Weitere Informationen" if the residual pass has rows
BeforeTerritory(elem, d) ==
  LET res == ResidualPart(elem, d, 1)
  IN  CatalogPart(elem) \o (IF res # <<>> THEN <<Section(T_Weitere, res)>> ELSE <<>>)

\* no row of a key the catalog pass collected stands outside the catalog sections
CollectedOnce(elem, secs) ==
  LET rows == {Fact(ClaimedLabel(key), OnlyText(elem, key)) : key \in Collected(elem)}
      last == Len(CatalogPart(elem))
  IN  \A m \in 1..Len(secs) : \A q \in 1..Len(secs[m].facts) :
        secs[m].facts[q] \in rows => m <= last

\* C12 as claimed: the passes run in a fixed order and a top-level field is rendered
\* by at most one of them: the catalog sections in catalog order, then "Weitere
\* Informationen" with the rows of every other field, a catalog key holding a list
\* or a mapping among them, never 'id' or 'gebiete', then the territory sections.
C12_PassOrderAsClaimed ==
  \A n \in 1..Len(files) :
    LET elem == ElemOf(files[n])
        d    == states[Producer(files[n])]
    IN  /\ files[n].sections = BeforeTerritory(elem, d) \o TerritoryPass(<<>>, d)
        /\ CollectedOnce(elem, files[n].sections)

\* C12, amended: ... as claimed, but for the first territory section when its title
\* is the title of the section emitted last before the territory pass: its rows are
\* appended to that section, so rows of 'gebiete' can stand in "Weitere
\* Informationen" (or in a catalog section), after the rows that section had.
C12_PassOrder ==
  \A n \in 1..Len(files) :
    LET elem == ElemOf(files[n])
        d    == states[Producer(files[n])]
        secs == files[n].sections
        pre  == BeforeTerritory(elem, d)
        terr == TerritoryPass(<<>>, d)
    IN  /\ IF pre # <<>> /\ terr # <<>> /\ terr[1].title = pre[Len(pre)].title
             THEN secs = [pre EXCEPT ![Len(pre)].facts = @ \o terr[1].facts] \o Tail(terr)
             ELSE secs = pre \o terr
        /\ CollectedOnce(elem, secs)

\* the page of a record with all of it: two catalog sections against document order,
\* a residual section that opens with the header of a catalog key holding a nested
\* element and ends with the row of the territory block of its title, and a
\* territory section
C12_Witness ==
  \E n \in 1..Len(files) :
    LET secs == files[n].sections
    IN  /\ ElemOf(files[n]) = FullStaat
        /\ Len(secs) = 4
        /\ secs[1] = Section(T_Basisdaten, <<Fact(ClaimedLabel(K_hauptstadt), <<"R", "o", "m">>)>>)
        /\ secs[2].facts = <<Fact(ClaimedLabel(K_geolage), <<"S", "u", "e", "d">>)>>
        /\ secs[3].title = T_Weitere
        /\ secs[3].facts[1] = Fact(ClaimedLabel(K_flaeche), <<>>)
        /\ secs[3].facts[Len(secs[3].facts)] = Fact(L_Info, <<"d">>)
        /\ secs[4].title = T_Inseln
====
